---- MODULE Spec2Model ----
(***************************************************************************)
(* The CPU core of the gbrust Game Boy (DMG) emulator, src/dmg/dmg_cpu.rs, *)
(* as a state machine.  One Step is one call of Cpu::step: the opcode at   *)
(* PC is decoded and executed, the interrupt check runs, and the bus is    *)
(* told the elapsed cycles.  Every executor of the source is an operator   *)
(* from a machine record to a machine record and a ProgramCounter value.   *)
(*                                                                         *)
(* The bus (Interconnect) is not part of the source file.  It is modelled  *)
(* as a byte store: a byte the CPU has written is read back, and a byte    *)
(* at an address the CPU never wrote is an input of the step.              *)
(*                                                                         *)
(* Rust's +, - and += on u16 abort the program when they overflow in a     *)
(* build with overflow checks (the debug profile) and wrap otherwise.      *)
(* overflow_checks is that build setting, fixed at construction.  An       *)
(* aborted program is fatal = TRUE and takes no further step.              *)
(***************************************************************************)
EXTENDS Integers, Sequences, FiniteSets, TLC

VARIABLES
    reg,              \* Cpu.reg: the Registers struct
    stack,            \* Cpu.stack: the private [u8; 65536], kept sparse (absent = 0)
    halt_mode,        \* Cpu.halt_mode
    stop_mode,        \* Cpu.stop_mode
    mem,              \* bytes written through interconnect.write, sparse
    int_flags,        \* interconnect.int_flags (IF)
    int_enable,       \* interconnect.int_enable (IE)
    fatal,            \* the program has aborted (panic!)
    overflow_checks,  \* the build checks integer overflow
    last,             \* what the last call of step did
    steps             \* calls of step so far

vars == <<reg, stack, halt_mode, stop_mode, mem, int_flags, int_enable,
          fatal, overflow_checks, last, steps>>

(***************************************************************************)
(* Bounds of the model.                                                    *)
(***************************************************************************)
MaxSteps == 2

(***************************************************************************)
(* Program constants.                                                      *)
(***************************************************************************)
ZF == 128
NF == 64
HF == 32
CF == 16

A_ID == 7
B_ID == 0
C_ID == 1
D_ID == 2
E_ID == 3
H_ID == 4
L_ID == 5

BC_ID == 0
DE_ID == 1
HL_ID == 2
SP_ID == 3
AF_ID == 3

Byte == 0..255
W8 == 2 ^ 8
W16 == 2 ^ 16

(***************************************************************************)
(* Fixed-width arithmetic and bit operations on naturals.                  *)
(***************************************************************************)
Pow2(i) == CASE i = 0 -> 1 [] i = 1 -> 2 [] i = 2 -> 4 [] i = 3 -> 8
             [] i = 4 -> 16 [] i = 5 -> 32 [] i = 6 -> 64 [] i = 7 -> 128
             [] i = 8 -> 256 [] OTHER -> 2 ^ i

Bit(x, i) == (x \div Pow2(i)) % 2

\* x & y, x | y, x ^ y on w-bit values
BitAnd(x, y, w) ==
    LET RECURSIVE go(_)
        go(i) == IF i = w THEN 0
                 ELSE Bit(x, i) * Bit(y, i) * Pow2(i) + go(i + 1)
    IN go(0)

BitOr(x, y, w) ==
    LET RECURSIVE go(_)
        go(i) == IF i = w THEN 0
                 ELSE (IF Bit(x, i) + Bit(y, i) > 0 THEN Pow2(i) ELSE 0) + go(i + 1)
    IN go(0)

BitXor(x, y, w) ==
    LET RECURSIVE go(_)
        go(i) == IF i = w THEN 0
                 ELSE ((Bit(x, i) + Bit(y, i)) % 2) * Pow2(i) + go(i + 1)
    IN go(0)

And8(x, y) == BitAnd(x, y, 8)
Or8(x, y) == BitOr(x, y, 8)
Xor8(x, y) == BitXor(x, y, 8)

\* (x << k) as u8 and x >> k
Shl8(x, k) == (x * Pow2(k)) % W8
Shr(x, k) == x \div Pow2(k)

\* u8 as i8 as i16: the signed value of a byte
AsI8(x) == IF x >= 128 THEN x - 256 ELSE x

\* i16 as u16 and u16 as i16
AsU16(x) == x % W16
AsI16(x) == IF x >= 32768 THEN x - W16 ELSE x

\* u8::trailing_zeros
TrailingZeros(x) ==
    LET RECURSIVE go(_)
        go(i) == IF i = 8 THEN 8 ELSE IF Bit(x, i) = 1 THEN i ELSE go(i + 1)
    IN go(0)

(***************************************************************************)
(* Checked u16 arithmetic: the wrapped value, and whether the build        *)
(* aborts on it.                                                           *)
(***************************************************************************)
Wrap16(x) == x % W16
Overflows16(x) == x < 0 \/ x >= W16
Aborts(M, x) == M.overflow_checks /\ Overflows16(x)
Panic(M) == [M EXCEPT !.fatal = TRUE]
\* panic! with a message of its own, and Option::unwrap on None
PanicWith(M, msg) == [M EXCEPT !.fatal = TRUE, !.diag = msg]

(***************************************************************************)
(* The bus.  A read of an address the CPU has written returns the byte     *)
(* written; any other read returns the byte the step's input puts there:   *)
(* op, n1, n2 at the three addresses from the PC the step starts at, and   *)
(* d everywhere else.                                                      *)
(***************************************************************************)
Unwritten(in, addr) ==
    IF addr = in.at THEN in.op
    ELSE IF addr = Wrap16(in.at + 1) THEN in.n1
    ELSE IF addr = Wrap16(in.at + 2) THEN in.n2
    ELSE in.d

BusRead(M, addr) ==
    IF addr \in DOMAIN M.mem THEN M.mem[addr] ELSE Unwritten(M.bus_in, addr)

BusWrite(M, addr, val) == [M EXCEPT !.mem = (addr :> val) @@ M.mem]

\* an element of the private stack array, zero until written
StackAt(M, i) == IF i \in DOMAIN M.stack THEN M.stack[i] ELSE 0

(***************************************************************************)
(* ProgramCounter: what every executor returns.                            *)
(***************************************************************************)
PcNext(bytes, cycles) == [kind |-> "Next", by |-> bytes, cycles |-> cycles]
PcJump(addr, cycles) == [kind |-> "Jump", by |-> addr, cycles |-> cycles]

\* an executor's result: the machine it leaves and the ProgramCounter it returns
Ret(M, pcu) == [m |-> M, pcu |-> pcu]
\* an executor that aborted returns nothing
Abort(M) == [m |-> Panic(M), pcu |-> PcNext(0, 0)]
\* a panic! that returns as a one-byte instruction would
AbortWith_runs_on(M, msg) == [m |-> M, pcu |-> PcNext(1, 1)]

AbortWith(M, msg) == [m |-> PanicWith(M, msg), pcu |-> PcNext(0, 0)]

(***************************************************************************)
(* Register access.                                                        *)
(***************************************************************************)
\* a write of an 8-bit register that leaves the pair views alone
write_to_r8_half_only(M, r8_id, content) ==
    CASE r8_id = A_ID -> [M EXCEPT !.reg.a = content]
      [] r8_id = B_ID -> [M EXCEPT !.reg.b = content]
      [] r8_id = C_ID -> [M EXCEPT !.reg.c = content]
      [] r8_id = D_ID -> [M EXCEPT !.reg.d = content]
      [] r8_id = E_ID -> [M EXCEPT !.reg.e = content]
      [] r8_id = H_ID -> [M EXCEPT !.reg.h = content]
      [] r8_id = L_ID -> [M EXCEPT !.reg.l = content]
      [] OTHER -> PanicWith(M, "Invalid register")

write_to_r8(M, r8_id, content) ==
    CASE r8_id = A_ID -> [M EXCEPT !.reg.a = content]
      [] r8_id = B_ID -> [M EXCEPT !.reg.b = content,
                                   !.reg.bc = (M.reg.bc % 256) + content * 256]
      [] r8_id = C_ID -> [M EXCEPT !.reg.c = content,
                                   !.reg.bc = (M.reg.bc \div 256) * 256 + content]
      [] r8_id = D_ID -> [M EXCEPT !.reg.d = content,
                                   !.reg.de = (M.reg.de % 256) + content * 256]
      [] r8_id = E_ID -> [M EXCEPT !.reg.e = content,
                                   !.reg.de = (M.reg.de \div 256) * 256 + content]
      [] r8_id = H_ID -> [M EXCEPT !.reg.h = content,
                                   !.reg.hl = (M.reg.hl % 256) + content * 256]
      [] r8_id = L_ID -> [M EXCEPT !.reg.l = content,
                                   !.reg.hl = (M.reg.hl \div 256) * 256 + content]
      [] OTHER -> PanicWith(M, "Invalid register")

\* Option<u8>: None is -1
None == 0 - 1

read_from_r8(M, r8_id) ==
    CASE r8_id = A_ID -> M.reg.a
      [] r8_id = B_ID -> M.reg.b
      [] r8_id = C_ID -> M.reg.c
      [] r8_id = D_ID -> M.reg.d
      [] r8_id = E_ID -> M.reg.e
      [] r8_id = H_ID -> M.reg.h
      [] r8_id = L_ID -> M.reg.l
      [] OTHER -> None

load_mem_to_r8(M, r8_id, addr) == write_to_r8(M, r8_id, BusRead(M, addr))

\* a store that unwraps the register read
save_r8_to_mem_unwraps(M, r8_id, addr) ==
    IF read_from_r8(M, r8_id) = None THEN PanicWith(M, "unwrap on None")
    ELSE BusWrite(M, addr, read_from_r8(M, r8_id))

save_r8_to_mem(M, r8_id, addr) ==
    IF read_from_r8(M, r8_id) = None THEN M
    ELSE BusWrite(M, addr, read_from_r8(M, r8_id))

\* the operand fetches add to PC with +, which a checking build aborts on
get_n_aborts(M) == Aborts(M, M.reg.pc + 1)
get_n(M) == BusRead(M, Wrap16(M.reg.pc + 1))

get_r8_to(M) == (BusRead(M, M.reg.pc) \div 8) % 8
get_r8_from(M) == BusRead(M, M.reg.pc) % 8

write_to_r16(M, r16_id, content) ==
    LET msb == content \div 256
        lsb == content % 256
    IN CASE r16_id = BC_ID -> [M EXCEPT !.reg.bc = content, !.reg.b = msb, !.reg.c = lsb]
         [] r16_id = DE_ID -> [M EXCEPT !.reg.de = content, !.reg.d = msb, !.reg.e = lsb]
         [] r16_id = HL_ID -> [M EXCEPT !.reg.hl = content, !.reg.h = msb, !.reg.l = lsb]
         [] r16_id = SP_ID -> [M EXCEPT !.reg.sp = content]
         [] OTHER -> PanicWith(M, "Invalid register")

pp_write_r16(M, r16_id, content) ==
    LET msb == content \div 256
        lsb == content % 256
    IN CASE r16_id = BC_ID -> [M EXCEPT !.reg.bc = content, !.reg.b = msb, !.reg.c = lsb]
         [] r16_id = DE_ID -> [M EXCEPT !.reg.de = content, !.reg.d = msb, !.reg.e = lsb]
         [] r16_id = HL_ID -> [M EXCEPT !.reg.hl = content, !.reg.h = msb, !.reg.l = lsb]
         [] r16_id = AF_ID -> [M EXCEPT !.reg.a = msb, !.reg.f = lsb]
         [] OTHER -> PanicWith(M, "Invalid register")

read_from_r16(M, r16_id) ==
    CASE r16_id = BC_ID -> M.reg.bc
      [] r16_id = DE_ID -> M.reg.de
      [] r16_id = HL_ID -> M.reg.hl
      [] r16_id = SP_ID -> M.reg.sp
      [] OTHER -> None

pp_read_r16(M, r16_id) ==
    CASE r16_id = BC_ID -> M.reg.bc
      [] r16_id = DE_ID -> M.reg.de
      [] r16_id = HL_ID -> M.reg.hl
      [] r16_id = AF_ID -> M.reg.a * 256 + M.reg.f
      [] OTHER -> None

\* low byte to addr, high byte to addr + 1
save_r16_to_mem(M, r16_id, addr) ==
    LET value == read_from_r16(M, r16_id)
        low == BusWrite(M, addr, value % 256)
    IN IF value = None THEN M
       ELSE IF Aborts(M, addr + 1) THEN Panic(low)
       ELSE BusWrite(low, Wrap16(addr + 1), value \div 256)

get_nn_aborts(M) == Aborts(M, M.reg.pc + 1) \/ Aborts(M, M.reg.pc + 2)
get_nn(M) ==
    LET nn_low == BusRead(M, Wrap16(M.reg.pc + 1))
        nn_high == BusRead(M, Wrap16(M.reg.pc + 2))
    IN nn_high * 256 + nn_low

get_r16(M) == (BusRead(M, M.reg.pc) \div 16) % 4

(***************************************************************************)
(* Flags.                                                                  *)
(***************************************************************************)
set_flag(M, flag) == [M EXCEPT !.reg.f = Or8(M.reg.f, flag)]

reset_flag(M, flag) ==
    CASE flag = ZF -> [M EXCEPT !.reg.f = And8(M.reg.f, 127)]
      [] flag = NF -> [M EXCEPT !.reg.f = And8(M.reg.f, 191)]
      [] flag = HF -> [M EXCEPT !.reg.f = And8(M.reg.f, 223)]
      [] flag = CF -> [M EXCEPT !.reg.f = And8(M.reg.f, 239)]
      [] OTHER -> M

PutFlag(M, flag, on) == IF on THEN set_flag(M, flag) ELSE reset_flag(M, flag)

set_hcnz(M, fh, fc, fn, fz) ==
    PutFlag(PutFlag(PutFlag(PutFlag(M, HF, fh), CF, fc), NF, fn), ZF, fz)

\* a flag update for INC and DEC that also resets C
set_hnz_resets_c(M, fh, fn, fz) == set_hcnz(M, fh, FALSE, fn, fz)

set_hnz(M, fh, fn, fz) == PutFlag(PutFlag(PutFlag(M, HF, fh), NF, fn), ZF, fz)

set_hcn(M, fh, fc, fn) == PutFlag(PutFlag(PutFlag(M, HF, fh), CF, fc), NF, fn)

FlagSet(M, flag) == And8(M.reg.f, flag) # 0

\* cc is bits 4-3 of the opcode at PC
\* a condition test that reads N where the code reads Z
check_cc_tests_n(M) ==
    LET cc == (BusRead(M, M.reg.pc) \div 8) % 4
    IN CASE cc = 0 -> ~FlagSet(M, NF)
         [] cc = 1 -> FlagSet(M, NF)
         [] cc = 2 -> ~FlagSet(M, CF)
         [] cc = 3 -> FlagSet(M, CF)

check_cc(M) ==
    LET cc == (BusRead(M, M.reg.pc) \div 8) % 4
    IN CASE cc = 0 -> ~FlagSet(M, ZF)
         [] cc = 1 -> FlagSet(M, ZF)
         [] cc = 2 -> ~FlagSet(M, CF)
         [] cc = 3 -> FlagSet(M, CF)

(***************************************************************************)
(* Rotates shared by the accumulator and the CB-prefixed forms.            *)
(***************************************************************************)
\* the rotated byte and the bit shifted out
Rotated(data, bit_cf, is_rotate_left, has_carry) ==
    IF is_rotate_left
    THEN LET bit_a7 == Bit(data, 7)
         IN [data |-> Or8(Shl8(data, 1), IF has_carry THEN bit_a7 ELSE bit_cf),
             c |-> bit_a7 > 0]
    ELSE LET bit_a0 == data % 2
         IN [data |-> Or8(Shr(data, 1), Shl8(IF has_carry THEN bit_a0 ELSE bit_cf, 7)),
             c |-> bit_a0 > 0]

rotate_r8(M, r8_id, is_rotate_left, has_carry) ==
    IF read_from_r8(M, r8_id) = None THEN M
    ELSE LET r == Rotated(read_from_r8(M, r8_id), And8(M.reg.f, CF) \div 16,
                          is_rotate_left, has_carry)
         IN set_hcnz(write_to_r8(M, r8_id, r.data), FALSE, r.c, FALSE, r.data = 0)

\* a memory rotate that leaves Z as it was
rotate_mem_keeps_z(M, addr, is_left_rotate, has_carry) ==
    LET r == Rotated(BusRead(M, addr), And8(M.reg.f, CF) \div 16,
                     is_left_rotate, has_carry)
    IN set_hcn(BusWrite(M, addr, r.data), FALSE, r.c, FALSE)

rotate_mem(M, addr, is_left_rotate, has_carry) ==
    LET r == Rotated(BusRead(M, addr), And8(M.reg.f, CF) \div 16,
                     is_left_rotate, has_carry)
    IN set_hcnz(BusWrite(M, addr, r.data), FALSE, r.c, FALSE, r.data = 0)

write_a(M, to_write) == write_to_r8(M, A_ID, to_write)

(***************************************************************************)
(* The stack: the private array of the Cpu, indexed by SP.                 *)
(***************************************************************************)
\* a push that stores the low byte above the high byte
push_u16_low_byte_on_top(M, val) ==
    LET sp == M.reg.sp
        hi == [M EXCEPT !.stack = (Wrap16(sp - 1) :> (val % 256)) @@ M.stack]
        lo == [hi EXCEPT !.stack = (Wrap16(sp - 2) :> (val \div 256)) @@ hi.stack]
    IN IF Aborts(M, sp - 1) THEN Panic(M)
       ELSE IF Aborts(M, sp - 2) THEN Panic(hi)
       ELSE [lo EXCEPT !.reg.sp = Wrap16(sp - 2)]

push_u16(M, val) ==
    LET sp == M.reg.sp
        hi == [M EXCEPT !.stack = (Wrap16(sp - 1) :> (val \div 256)) @@ M.stack]
        lo == [hi EXCEPT !.stack = (Wrap16(sp - 2) :> (val % 256)) @@ hi.stack]
    IN IF Aborts(M, sp - 1) THEN Panic(M)
       ELSE IF Aborts(M, sp - 2) THEN Panic(hi)
       ELSE [lo EXCEPT !.reg.sp = Wrap16(sp - 2)]

\* a pop that takes the high byte from SP and the low byte from SP + 1
pop_u16_swapped(M) ==
    LET sp == M.reg.sp
        msb == StackAt(M, sp)
        lsb == StackAt(M, Wrap16(sp + 1))
    IN IF Aborts(M, sp + 1) \/ Aborts(M, sp + 2) THEN [m |-> Panic(M), val |-> 0]
       ELSE [m |-> [M EXCEPT !.reg.sp = Wrap16(sp + 2)], val |-> msb * 256 + lsb]

\* the machine after the pop and the value popped
pop_u16(M) ==
    LET sp == M.reg.sp
        lsb == StackAt(M, sp)
        msb == StackAt(M, Wrap16(sp + 1))
    IN IF Aborts(M, sp + 1) \/ Aborts(M, sp + 2) THEN [m |-> Panic(M), val |-> 0]
       ELSE [m |-> [M EXCEPT !.reg.sp = Wrap16(sp + 2)], val |-> msb * 256 + lsb]

(***************************************************************************)
(* 8-bit loads.                                                            *)
(***************************************************************************)
ld_rx_ry(M) ==
    LET rx == get_r8_to(M)
        ry == get_r8_from(M)
    IN Ret(IF read_from_r8(M, ry) = None THEN M
           ELSE write_to_r8(M, rx, read_from_r8(M, ry)),
           PcNext(1, 1))

ld_r_n(M) ==
    IF get_n_aborts(M) THEN Abort(M)
    ELSE Ret(write_to_r8(M, get_r8_to(M), get_n(M)), PcNext(2, 2))

ld_r_addr_hl(M) == Ret(load_mem_to_r8(M, get_r8_to(M), M.reg.hl), PcNext(1, 2))

ld_addr_hl_r(M) == Ret(save_r8_to_mem(M, get_r8_from(M), M.reg.hl), PcNext(1, 2))

ld_addr_hl_n(M) ==
    IF get_n_aborts(M) THEN Abort(M)
    ELSE Ret(BusWrite(M, M.reg.hl, get_n(M)), PcNext(2, 3))

ld_a_addr_bc(M) == Ret(load_mem_to_r8(M, A_ID, M.reg.bc), PcNext(1, 2))

ld_a_addr_de(M) == Ret(load_mem_to_r8(M, A_ID, M.reg.de), PcNext(1, 2))

ldh_a_addr_offset_c(M) == Ret(load_mem_to_r8(M, A_ID, 65280 + M.reg.c), PcNext(1, 2))

ldh_addr_offset_c_a(M) == Ret(save_r8_to_mem(M, A_ID, 65280 + M.reg.c), PcNext(1, 2))

ldh_a_addr_offset_n(M) ==
    IF get_n_aborts(M) THEN Abort(M)
    ELSE Ret(load_mem_to_r8(M, A_ID, 65280 + get_n(M)), PcNext(2, 3))

ldh_addr_offset_n_a(M) ==
    IF get_n_aborts(M) THEN Abort(M)
    ELSE Ret(save_r8_to_mem(M, A_ID, 65280 + get_n(M)), PcNext(2, 3))

ld_a_addr_nn(M) ==
    IF get_nn_aborts(M) THEN Abort(M)
    ELSE Ret(load_mem_to_r8(M, A_ID, get_nn(M)), PcNext(3, 4))

ld_addr_nn_a(M) ==
    IF get_nn_aborts(M) THEN Abort(M)
    ELSE Ret(save_r8_to_mem(M, A_ID, get_nn(M)), PcNext(3, 4))

\* these two add with + and -; the stores below use wrapping_add and wrapping_sub
ld_a_addr_hl_inc(M) ==
    LET loaded == load_mem_to_r8(M, A_ID, M.reg.hl)
    IN IF Aborts(M, M.reg.hl + 1) THEN Abort(loaded)
       ELSE Ret(write_to_r16(loaded, HL_ID, Wrap16(M.reg.hl + 1)), PcNext(1, 2))

ld_a_addr_hl_dec(M) ==
    LET loaded == load_mem_to_r8(M, A_ID, M.reg.hl)
    IN IF Aborts(M, M.reg.hl - 1) THEN Abort(loaded)
       ELSE Ret(write_to_r16(loaded, HL_ID, Wrap16(M.reg.hl - 1)), PcNext(1, 2))

ld_addr_bc_a(M) == Ret(save_r8_to_mem(M, A_ID, M.reg.bc), PcNext(1, 2))

ld_addr_de_a(M) == Ret(save_r8_to_mem(M, A_ID, M.reg.de), PcNext(1, 2))

ld_addr_hl_a_inc(M) ==
    LET saved == save_r8_to_mem(M, A_ID, M.reg.hl)
    IN Ret(write_to_r16(saved, HL_ID, Wrap16(M.reg.hl + 1)), PcNext(1, 2))

ld_addr_hl_a_dec(M) ==
    LET saved == save_r8_to_mem(M, A_ID, M.reg.hl)
    IN Ret(write_to_r16(saved, HL_ID, Wrap16(M.reg.hl - 1)), PcNext(1, 2))

(***************************************************************************)
(* 16-bit loads.                                                           *)
(***************************************************************************)
ld_rr_nn(M) ==
    IF get_nn_aborts(M) THEN Abort(M)
    ELSE Ret(write_to_r16(M, get_r16(M), get_nn(M)), PcNext(3, 3))

ld_addr_nn_sp(M) ==
    IF get_nn_aborts(M) THEN Abort(M)
    ELSE Ret(save_r16_to_mem(M, SP_ID, get_nn(M)), PcNext(3, 5))

ld_sp_hl(M) == Ret([M EXCEPT !.reg.sp = M.reg.hl], PcNext(1, 2))

\* pp_read_r16(rr).unwrap()
push_rr(M) ==
    LET val == pp_read_r16(M, get_r16(M))
    IN IF val = None THEN AbortWith(M, "unwrap on None") ELSE Ret(push_u16(M, val), PcNext(1, 4))

pop_rr(M) ==
    LET popped == pop_u16(M)
    IN IF popped.m.fatal THEN Abort(M)
       ELSE Ret(pp_write_r16(popped.m, get_r16(M), popped.val), PcNext(1, 3))

ld_hl_sp_e(M) ==
    LET e == AsI8(get_n(M))
        sp_reg == M.reg.sp
        new_hl == Wrap16(M.reg.sp + e)
        fc == IF e >= 0 THEN (sp_reg % 256) + e > 255
                        ELSE (new_hl % 256) <= (sp_reg % 256)
        fh == IF e >= 0 THEN (sp_reg % 16) + (e % 16) > 15
                        ELSE (new_hl % 16) <= (sp_reg % 16)
    IN IF get_n_aborts(M) THEN Abort(M)
       ELSE Ret(write_to_r16(set_hcnz(M, fh, fc, FALSE, FALSE), HL_ID, new_hl),
                PcNext(2, 3))

(***************************************************************************)
(* 8-bit arithmetic and logic on A.  Each operation is written three times *)
(* in the source (register, immediate, (HL)); the three differ only in     *)
(* where the operand comes from and in the ProgramCounter returned.        *)
(***************************************************************************)
Carry(M) == IF And8(M.reg.f, CF) > 0 THEN 1 ELSE 0

AluAdd(M, r) ==
    LET a == M.reg.a
        res == a + r
    IN set_hcnz(write_a(M, res % 256),
                (a % 16) + (r % 16) > 15, res > 255, FALSE, res % 256 = 0)

\* ADC whose half carry leaves the carry-in out
AluAdc_half_carry_without_carry_in(M, r) ==
    LET a == M.reg.a
        carry == Carry(M)
        res == a + r + carry
    IN set_hcnz(write_a(M, res % 256),
                (a % 16) + (r % 16) > 15, res > 255, FALSE, res % 256 = 0)

AluAdc(M, r) ==
    LET a == M.reg.a
        carry == Carry(M)
        res == a + r + carry
    IN set_hcnz(write_a(M, res % 256),
                (a % 16) + (r % 16) + (carry % 16) > 15, res > 255, FALSE,
                res % 256 = 0)

\* a subtraction whose H repeats the borrow out of bit 7
AluSub_half_borrow_is_borrow(M, r) ==
    LET a == M.reg.a
        res == (a - r) % 256
    IN set_hcnz(write_a(M, res), a < r, a < r, TRUE, res = 0)

AluSub(M, r) ==
    LET a == M.reg.a
        res == (a - r) % 256
    IN set_hcnz(write_a(M, res), (a % 16) < (r % 16), a < r, TRUE, res = 0)

AluSbc(M, r) ==
    LET a == M.reg.a
        carry == Carry(M)
        res == (a - r - carry) % 256
    IN set_hcnz(write_a(M, res),
                (a % 16) < (r % 16) + carry, a < r + carry, TRUE, res = 0)

AluAnd(M, r) ==
    LET res == And8(M.reg.a, r)
    IN set_hcnz(write_a(M, res), TRUE, FALSE, FALSE, res = 0)

AluOr(M, r) ==
    LET res == Or8(M.reg.a, r)
    IN set_hcnz(write_a(M, res), FALSE, FALSE, FALSE, res = 0)

AluXor(M, r) ==
    LET res == Xor8(M.reg.a, r)
    IN set_hcnz(write_a(M, res), FALSE, FALSE, FALSE, res = 0)

AluCp(M, r) ==
    LET a == M.reg.a
        res == (a - r) % 256
    IN set_hcnz(M, (a % 16) < (r % 16), a < r, TRUE, res = 0)

\* read_from_r8(idx).unwrap() of the register named by bits 2-0
OperandR(M) == read_from_r8(M, get_r8_from(M))
OperandHl(M) == BusRead(M, M.reg.hl)

add_ar(M) == IF OperandR(M) = None THEN AbortWith(M, "unwrap on None")
             ELSE Ret(AluAdd(M, OperandR(M)), PcNext(1, 1))
add_an(M) == IF get_n_aborts(M) THEN Abort(M)
             ELSE Ret(AluAdd(M, get_n(M)), PcNext(2, 2))
add_ahl(M) == Ret(AluAdd(M, OperandHl(M)), PcNext(1, 2))

adc_ar(M) == IF OperandR(M) = None THEN AbortWith(M, "unwrap on None")
             ELSE Ret(AluAdc(M, OperandR(M)), PcNext(1, 1))
adc_an(M) == IF get_n_aborts(M) THEN Abort(M)
             ELSE Ret(AluAdc(M, get_n(M)), PcNext(2, 2))
adc_ahl(M) == Ret(AluAdc(M, OperandHl(M)), PcNext(1, 2))

sub_r(M) == IF OperandR(M) = None THEN AbortWith(M, "unwrap on None")
            ELSE Ret(AluSub(M, OperandR(M)), PcNext(1, 1))
sub_n(M) == IF get_n_aborts(M) THEN Abort(M)
            ELSE Ret(AluSub(M, get_n(M)), PcNext(2, 2))
sub_hl(M) == Ret(AluSub(M, OperandHl(M)), PcNext(1, 2))

sbc_ar(M) == IF OperandR(M) = None THEN AbortWith(M, "unwrap on None")
             ELSE Ret(AluSbc(M, OperandR(M)), PcNext(1, 1))
sbc_an(M) == IF get_n_aborts(M) THEN Abort(M)
             ELSE Ret(AluSbc(M, get_n(M)), PcNext(2, 2))
sbc_ahl(M) == Ret(AluSbc(M, OperandHl(M)), PcNext(1, 2))

and_r(M) == IF OperandR(M) = None THEN AbortWith(M, "unwrap on None")
            ELSE Ret(AluAnd(M, OperandR(M)), PcNext(1, 1))
and_n(M) == IF get_n_aborts(M) THEN Abort(M)
            ELSE Ret(AluAnd(M, get_n(M)), PcNext(2, 2))
and_hl(M) == Ret(AluAnd(M, OperandHl(M)), PcNext(1, 2))

or_r(M) == IF OperandR(M) = None THEN AbortWith(M, "unwrap on None")
           ELSE Ret(AluOr(M, OperandR(M)), PcNext(1, 1))
or_n(M) == IF get_n_aborts(M) THEN Abort(M)
           ELSE Ret(AluOr(M, get_n(M)), PcNext(2, 2))
or_hl(M) == Ret(AluOr(M, OperandHl(M)), PcNext(1, 2))

xor_r(M) == IF OperandR(M) = None THEN AbortWith(M, "unwrap on None")
            ELSE Ret(AluXor(M, OperandR(M)), PcNext(1, 1))
xor_n(M) == IF get_n_aborts(M) THEN Abort(M)
            ELSE Ret(AluXor(M, get_n(M)), PcNext(2, 2))
xor_hl(M) == Ret(AluXor(M, OperandHl(M)), PcNext(1, 2))

cp_r(M) == IF OperandR(M) = None THEN AbortWith(M, "unwrap on None")
           ELSE Ret(AluCp(M, OperandR(M)), PcNext(1, 1))
cp_n(M) == IF get_n_aborts(M) THEN Abort(M)
           ELSE Ret(AluCp(M, get_n(M)), PcNext(2, 2))
cp_hl(M) == Ret(AluCp(M, OperandHl(M)), PcNext(1, 2))

(***************************************************************************)
(* INC and DEC of a register or of (HL).                                   *)
(***************************************************************************)
inc_r(M) ==
    LET idx == get_r8_to(M)
        r == read_from_r8(M, idx)
        res == IF r = 255 THEN 0 ELSE r + 1
    IN IF r = None THEN AbortWith(M, "unwrap on None")
       ELSE Ret(set_hnz(write_to_r8(M, idx, res), r % 16 = 15, FALSE, res = 0),
                PcNext(1, 1))

inc_hl(M) ==
    LET r == BusRead(M, M.reg.hl)
        res == IF r = 255 THEN 0 ELSE r + 1
    IN Ret(set_hnz(BusWrite(M, M.reg.hl, res), r % 16 = 15, FALSE, res = 0),
           PcNext(1, 3))

dec_r(M) ==
    LET idx == get_r8_to(M)
        r == read_from_r8(M, idx)
        res == IF r = 0 THEN 255 ELSE r - 1
    IN IF r = None THEN AbortWith(M, "unwrap on None")
       ELSE Ret(set_hnz(write_to_r8(M, idx, res), r % 16 = 0, TRUE, res = 0),
                PcNext(1, 1))

dec_hl(M) ==
    LET r == BusRead(M, M.reg.hl)
        res == IF r = 0 THEN 255 ELSE r - 1
    IN Ret(set_hnz(BusWrite(M, M.reg.hl, res), r % 16 = 0, TRUE, res = 0),
           PcNext(1, 3))

(***************************************************************************)
(* 16-bit arithmetic.                                                      *)
(***************************************************************************)
\* ADD HL,ss with the half carry taken from bit 7 instead of bit 11
add_hlss_half_carry_from_bit_7(M) ==
    LET idx == get_r8_to(M) \div 2
        r == read_from_r16(M, idx)
        hl == read_from_r16(M, HL_ID)
        res == r + hl
    IN Ret(set_hcn(write_to_r16(M, HL_ID, res % W16),
                   (hl % 256) + (r % 256) > 255, res > 65535, FALSE),
           PcNext(1, 2))

add_hlss(M) ==
    LET idx == get_r8_to(M) \div 2
        r == read_from_r16(M, idx)
        hl == read_from_r16(M, HL_ID)
        res == r + hl
    IN Ret(set_hcn(write_to_r16(M, HL_ID, res % W16),
                   (hl % 4096) + (r % 4096) > 4095, res > 65535, FALSE),
           PcNext(1, 2))

\* the operand byte is widened as unsigned: get_n() as u16
add_spe(M) ==
    LET r == get_n(M)
        sp == read_from_r16(M, SP_ID)
        res == r + sp
    IN IF get_n_aborts(M) THEN Abort(M)
       ELSE Ret(set_hcnz(write_to_r16(M, SP_ID, res % W16),
                         (sp % 4096) + (r % 4096) > 4095, res > 65535, FALSE, FALSE),
                PcNext(2, 4))

inc_ss(M) ==
    LET idx == get_r8_to(M) \div 2
        r == read_from_r16(M, idx)
    IN Ret(write_to_r16(M, idx, IF r = 65535 THEN 0 ELSE r + 1), PcNext(1, 2))

dec_ss(M) ==
    LET idx == get_r8_to(M) \div 2
        r == read_from_r16(M, idx)
    IN Ret(write_to_r16(M, idx, IF r = 0 THEN 65535 ELSE r - 1), PcNext(1, 2))

(***************************************************************************)
(* Rotates and shifts.                                                     *)
(***************************************************************************)
rlca(M) == Ret(rotate_r8(M, A_ID, TRUE, TRUE), PcNext(1, 1))
rla(M) == Ret(rotate_r8(M, A_ID, TRUE, FALSE), PcNext(1, 1))
rrca(M) == Ret(rotate_r8(M, A_ID, FALSE, TRUE), PcNext(1, 1))
rra(M) == Ret(rotate_r8(M, A_ID, FALSE, FALSE), PcNext(1, 1))

\* pc += 1; get_r8_from(); pc -= 1: bits 2-0 of the CB suffix
CbOperand(M) == BusRead(M, Wrap16(M.reg.pc + 1)) % 8
CbAborts(M) == Aborts(M, M.reg.pc + 1)

CbRotate(M, is_left, has_carry) ==
    LET r == CbOperand(M)
    IN IF CbAborts(M) THEN Abort(M)
       ELSE IF r = 6 THEN Ret(rotate_mem(M, M.reg.hl, is_left, has_carry), PcNext(2, 4))
       ELSE Ret(rotate_r8(M, r, is_left, has_carry), PcNext(2, 2))

rlc(M) == CbRotate(M, TRUE, TRUE)
rl(M) == CbRotate(M, TRUE, FALSE)
rrc(M) == CbRotate(M, FALSE, TRUE)
rr(M) == CbRotate(M, FALSE, FALSE)

\* the operand named by the CB suffix: (HL) for 6, else the register
CbData(M) ==
    IF CbOperand(M) = 6 THEN BusRead(M, M.reg.hl) ELSE read_from_r8(M, CbOperand(M))

\* a shift of the operand named by the CB suffix: out is the new byte and the carry
CbShift(M, out) ==
    IF CbAborts(M) THEN Abort(M)
    ELSE IF CbOperand(M) = 6
    THEN Ret(set_hcnz(BusWrite(M, M.reg.hl, out.data), FALSE, out.c, FALSE,
                      out.data = 0), PcNext(2, 4))
    ELSE Ret(set_hcnz(write_to_r8(M, CbOperand(M), out.data), FALSE, out.c, FALSE,
                      out.data = 0), PcNext(2, 2))

SlaOf(data) == [data |-> Shl8(data, 1), c |-> Bit(data, 7) > 0]
\* SRA that shifts a zero into bit 7
SraOf_clears_bit_7(data) == [data |-> Shr(data, 1), c |-> data % 2 > 0]

SraOf(data) == [data |-> Or8(Shr(data, 1), Shl8(Bit(data, 7), 7)), c |-> data % 2 > 0]
SrlOf(data) == [data |-> Shr(data, 1), c |-> data % 2 > 0]
SwapOf(data) == [data |-> Or8(Shl8(data % 16, 4), data \div 16), c |-> FALSE]

sla(M) == CbShift(M, SlaOf(CbData(M)))
sra(M) == CbShift(M, SraOf(CbData(M)))
srl(M) == CbShift(M, SrlOf(CbData(M)))
swap(M) == CbShift(M, SwapOf(CbData(M)))

(***************************************************************************)
(* CB bit operations.  BIT takes b and r from get_n, SET and RES from the  *)
(* low byte of get_nn.                                                     *)
(***************************************************************************)
\* BIT that copies the bit, not its complement, to Z
bit_b_r_copies_bit(M) ==
    LET br_info == get_n(M)
        bb == (br_info \div 8) % 8
        r == br_info % 8
        val == read_from_r8(M, r)
    IN IF get_n_aborts(M) THEN Abort(M)
       ELSE IF val = None THEN AbortWith(M, "unwrap on None")
       ELSE Ret(set_hnz(M, TRUE, FALSE, Bit(val, bb) = 1), PcNext(2, 2))

bit_b_r(M) ==
    LET br_info == get_n(M)
        bb == (br_info \div 8) % 8
        r == br_info % 8
        val == read_from_r8(M, r)
    IN IF get_n_aborts(M) THEN Abort(M)
       ELSE IF val = None THEN AbortWith(M, "unwrap on None")
       ELSE Ret(set_hnz(M, TRUE, FALSE, Bit(val, bb) = 0), PcNext(2, 2))

bit_b_hl(M) ==
    LET bb == (get_n(M) \div 8) % 8
        val == BusRead(M, M.reg.hl)
    IN IF get_n_aborts(M) THEN Abort(M)
       ELSE Ret(set_hnz(M, TRUE, FALSE, Bit(val, bb) = 0), PcNext(2, 3))

\* SET that takes b from the high byte of get_nn, the byte at PC + 2
set_b_r_bit_from_high_byte(M) ==
    LET br_info == get_nn(M)
        bb == (br_info \div 2048) % 8
        r == br_info % 8
        val == read_from_r8(M, r)
    IN IF get_nn_aborts(M) THEN Abort(M)
       ELSE IF val = None THEN AbortWith(M, "unwrap on None")
       ELSE Ret(write_to_r8(M, r, Or8(val, Pow2(bb))), PcNext(2, 2))

set_b_r(M) ==
    LET br_info == get_nn(M)
        bb == (br_info \div 8) % 8
        r == br_info % 8
        val == read_from_r8(M, r)
    IN IF get_nn_aborts(M) THEN Abort(M)
       ELSE IF val = None THEN AbortWith(M, "unwrap on None")
       ELSE Ret(write_to_r8(M, r, Or8(val, Pow2(bb))), PcNext(2, 2))

set_b_hl(M) ==
    LET bb == (get_nn(M) \div 8) % 8
        val == BusRead(M, M.reg.hl)
    IN IF get_nn_aborts(M) THEN Abort(M)
       ELSE Ret(BusWrite(M, M.reg.hl, Or8(val, Pow2(bb))), PcNext(2, 4))

res_b_r(M) ==
    LET br_info == get_nn(M)
        bb == (br_info \div 8) % 8
        r == br_info % 8
        val == read_from_r8(M, r)
    IN IF get_nn_aborts(M) THEN Abort(M)
       ELSE IF val = None THEN AbortWith(M, "unwrap on None")
       ELSE Ret(write_to_r8(M, r, And8(val, 255 - Pow2(bb))), PcNext(2, 2))

res_b_hl(M) ==
    LET bb == (get_nn(M) \div 8) % 8
        val == BusRead(M, M.reg.hl)
    IN IF get_nn_aborts(M) THEN Abort(M)
       ELSE Ret(BusWrite(M, M.reg.hl, And8(val, 255 - Pow2(bb))), PcNext(2, 4))

(***************************************************************************)
(* Control flow.                                                           *)
(***************************************************************************)
jp_nn(M) == IF get_nn_aborts(M) THEN Abort(M) ELSE Ret(M, PcJump(get_nn(M), 4))

jp_hl(M) == Ret(M, PcJump(M.reg.hl, 1))

jp_cc_nn(M) ==
    IF get_nn_aborts(M) THEN Abort(M)
    ELSE IF check_cc(M) THEN Ret(M, PcJump(get_nn(M), 4))
    ELSE Ret(M, PcNext(3, 3))

jr_e(M) ==
    IF get_n_aborts(M) THEN Abort(M)
    ELSE Ret(M, PcNext(AsI8(get_n(M)) + 2, 3))

jr_cc_e(M) ==
    IF get_n_aborts(M) THEN Abort(M)
    ELSE IF check_cc(M) THEN Ret(M, PcNext(AsI8(get_n(M)) + 2, 3))
    ELSE Ret(M, PcNext(2, 2))

\* a CALL that saves its own address instead of the address after it
call_nn_saves_own_address(M) ==
    IF get_nn_aborts(M) \/ Aborts(M, M.reg.pc + 3) THEN Abort(M)
    ELSE Ret(push_u16(M, M.reg.pc), PcJump(get_nn(M), 6))

call_nn(M) ==
    IF get_nn_aborts(M) \/ Aborts(M, M.reg.pc + 3) THEN Abort(M)
    ELSE Ret(push_u16(M, Wrap16(M.reg.pc + 3)), PcJump(get_nn(M), 6))

\* a conditional call that saves the return address whether or not it branches
call_cc_nn_always_pushes(M) ==
    IF get_nn_aborts(M) \/ Aborts(M, M.reg.pc + 3) THEN Abort(M)
    ELSE IF check_cc(M)
    THEN Ret(push_u16(M, Wrap16(M.reg.pc + 3)), PcJump(get_nn(M), 6))
    ELSE Ret(push_u16(M, Wrap16(M.reg.pc + 3)), PcNext(3, 3))

call_cc_nn(M) ==
    IF get_nn_aborts(M) THEN Abort(M)
    ELSE IF check_cc(M)
    THEN IF Aborts(M, M.reg.pc + 3) THEN Abort(M)
         ELSE Ret(push_u16(M, Wrap16(M.reg.pc + 3)), PcJump(get_nn(M), 6))
    ELSE Ret(M, PcNext(3, 3))

ret(M) ==
    LET popped == pop_u16(M)
    IN Ret(popped.m, PcJump(popped.val, 4))

ret_cc(M) ==
    IF check_cc(M)
    THEN LET popped == pop_u16(M) IN Ret(popped.m, PcJump(popped.val, 5))
    ELSE Ret(M, PcNext(1, 2))

\* RETI that forgets to enable interrupts
reti_without_ime(M) == ret(M)

reti(M) ==
    LET popped == pop_u16(M)
    IN IF popped.m.fatal THEN Abort(M)
       ELSE Ret([popped.m EXCEPT !.reg.ime = TRUE], PcJump(popped.val, 4))

rst_n(M) ==
    IF Aborts(M, M.reg.pc + 1) THEN Abort(M)
    ELSE Ret(push_u16(M, Wrap16(M.reg.pc + 1)), PcJump(get_r8_to(M) * 8, 4))

(***************************************************************************)
(* CPU control and flag instructions.                                      *)
(***************************************************************************)
halt(M) == Ret([M EXCEPT !.halt_mode = TRUE], PcNext(1, 0))

stop(M) == Ret([M EXCEPT !.stop_mode = TRUE], PcNext(1, 0))

\* DI that leaves IME as it is
di_keeps_ime(M) == Ret(M, PcNext(1, 1))

di(M) == Ret([M EXCEPT !.reg.ime = FALSE], PcNext(1, 1))

ei(M) == Ret([M EXCEPT !.reg.ime = TRUE], PcNext(1, 1))

\* CCF that leaves H as it was
ccf_keeps_h(M) ==
    Ret(PutFlag(PutFlag(M, CF, And8(M.reg.f, CF) = 0), NF, FALSE), PcNext(1, 1))

ccf(M) == Ret(set_hcn(M, FALSE, And8(M.reg.f, CF) = 0, FALSE), PcNext(1, 1))

scf(M) == Ret(set_hcn(M, FALSE, TRUE, FALSE), PcNext(1, 1))

nop(M) == Ret(M, PcNext(1, 1))

daa(M) ==
    LET a0 == M.reg.a
        is_addition == And8(M.reg.f, NF) = 0
        c_flag == And8(M.reg.f, CF) > 0
        h_flag == And8(M.reg.f, HF) > 0
        n_flag == And8(M.reg.f, NF) > 0
        has_carry == is_addition /\ (a0 > 144 \/ c_flag)
        a1 == IF is_addition
              THEN (IF a0 > 144 \/ c_flag THEN (a0 + 96) % 256 ELSE a0)
              ELSE (IF c_flag THEN (a0 - 96) % 256 ELSE a0)
        a2 == IF is_addition
              THEN (IF a1 % 16 > 9 \/ h_flag THEN (a1 + 6) % 256 ELSE a1)
              ELSE (IF h_flag THEN (a1 - 6) % 256 ELSE a1)
    IN Ret(set_hcnz(write_to_r8(M, A_ID, a2), has_carry, FALSE, n_flag, a2 = 0),
           PcNext(1, 1))

cpl(M) ==
    Ret(set_hnz(write_to_r8(M, A_ID, 255 - M.reg.a), TRUE, TRUE, And8(M.reg.f, ZF) > 0),
        PcNext(1, 1))

(***************************************************************************)
(* The decoders.  The source matches the bit fields of the opcode against  *)
(* a list of patterns and takes the first that fits; the chain below is    *)
(* that list in its order.                                                 *)
(***************************************************************************)
execute_bc(M, pc_current) ==
    LET suffix == BusRead(M, Wrap16(pc_current + 1))
        xx == suffix \div 64
        yyy == (suffix \div 8) % 8
        zzz == suffix % 8
    IN IF Aborts(M, pc_current + 1) THEN Abort(M) ELSE
       IF xx = 0 /\ yyy = 0 THEN rlc(M)
       ELSE IF xx = 0 /\ yyy = 2 THEN rl(M)
       ELSE IF xx = 0 /\ yyy = 1 THEN rrc(M)
       ELSE IF xx = 0 /\ yyy = 3 THEN rr(M)
       ELSE IF xx = 0 /\ yyy = 4 THEN sla(M)
       ELSE IF xx = 0 /\ yyy = 5 THEN sra(M)
       ELSE IF xx = 0 /\ yyy = 7 THEN srl(M)
       ELSE IF xx = 0 /\ yyy = 6 THEN swap(M)
       ELSE IF xx = 1 /\ zzz = 6 THEN bit_b_hl(M)
       ELSE IF xx = 1 THEN bit_b_r(M)
       ELSE IF xx = 2 /\ zzz = 6 THEN res_b_hl(M)
       ELSE IF xx = 2 THEN res_b_r(M)
       ELSE IF xx = 3 /\ zzz = 6 THEN set_b_hl(M)
       ELSE IF xx = 3 THEN set_b_r(M)
       ELSE AbortWith(M, "No such opcode in BC")

Dispatch(M) ==
    LET opcode == BusRead(M, M.reg.pc)
        xx == opcode \div 64
        yyy == (opcode \div 8) % 8
        zzz == opcode % 8
        is_aa0 == Bit(opcode, 3) = 0
        is_0bb == Bit(opcode, 5) = 0
    IN
       IF xx = 0 /\ yyy = 6 /\ zzz = 6 THEN ld_addr_hl_n(M)
       ELSE IF xx = 0 /\ yyy = 1 /\ zzz = 2 THEN ld_a_addr_bc(M)
       ELSE IF xx = 0 /\ yyy = 3 /\ zzz = 2 THEN ld_a_addr_de(M)
       ELSE IF xx = 0 /\ yyy = 0 /\ zzz = 2 THEN ld_addr_bc_a(M)
       ELSE IF xx = 0 /\ yyy = 2 /\ zzz = 2 THEN ld_addr_de_a(M)
       ELSE IF xx = 0 /\ yyy = 7 /\ zzz = 2 THEN ld_a_addr_hl_dec(M)
       ELSE IF xx = 0 /\ yyy = 6 /\ zzz = 2 THEN ld_addr_hl_a_dec(M)
       ELSE IF xx = 0 /\ yyy = 5 /\ zzz = 2 THEN ld_a_addr_hl_inc(M)
       ELSE IF xx = 0 /\ yyy = 4 /\ zzz = 2 THEN ld_addr_hl_a_inc(M)
       ELSE IF xx = 0 /\ yyy = 1 /\ zzz = 0 THEN ld_addr_nn_sp(M)
       ELSE IF xx = 0 /\ yyy = 3 /\ zzz = 0 THEN jr_e(M)
       ELSE IF xx = 0 /\ yyy = 7 /\ zzz = 7 THEN ccf(M)
       ELSE IF xx = 0 /\ yyy = 6 /\ zzz = 7 THEN scf(M)
       ELSE IF xx = 0 /\ yyy = 0 /\ zzz = 0 THEN nop(M)
       ELSE IF xx = 0 /\ yyy = 4 /\ zzz = 7 THEN daa(M)
       ELSE IF xx = 0 /\ yyy = 5 /\ zzz = 7 THEN cpl(M)
       ELSE IF xx = 0 /\ yyy = 6 /\ zzz = 4 THEN inc_hl(M)
       ELSE IF xx = 0 /\ yyy = 6 /\ zzz = 5 THEN dec_hl(M)
       ELSE IF xx = 0 /\ yyy = 0 /\ zzz = 7 THEN rlca(M)
       ELSE IF xx = 0 /\ yyy = 2 /\ zzz = 7 THEN rla(M)
       ELSE IF xx = 0 /\ yyy = 1 /\ zzz = 7 THEN rrca(M)
       ELSE IF xx = 0 /\ yyy = 3 /\ zzz = 7 THEN rra(M)
       ELSE IF xx = 0 /\ yyy = 2 /\ zzz = 0 THEN stop(M)
       ELSE IF xx = 0 /\ zzz = 3 /\ is_aa0 THEN inc_ss(M)
       ELSE IF xx = 0 /\ zzz = 3 /\ ~is_aa0 THEN dec_ss(M)
       ELSE IF xx = 0 /\ zzz = 1 /\ ~is_aa0 THEN add_hlss(M)
       ELSE IF xx = 0 /\ zzz = 1 /\ is_aa0 THEN ld_rr_nn(M)
       ELSE IF xx = 0 /\ zzz = 0 /\ ~is_0bb THEN jr_cc_e(M)
       ELSE IF xx = 0 /\ zzz = 6 THEN ld_r_n(M)
       ELSE IF xx = 0 /\ zzz = 5 THEN dec_r(M)
       ELSE IF xx = 0 /\ zzz = 4 THEN inc_r(M)
       ELSE IF xx = 1 /\ yyy = 6 THEN ld_addr_hl_r(M)
       ELSE IF xx = 1 /\ zzz = 6 THEN ld_r_addr_hl(M)
       ELSE IF xx = 1 THEN ld_rx_ry(M)
       ELSE IF xx = 2 /\ yyy = 0 /\ zzz = 6 THEN add_ahl(M)
       ELSE IF xx = 2 /\ yyy = 1 /\ zzz = 6 THEN adc_ahl(M)
       ELSE IF xx = 2 /\ yyy = 2 /\ zzz = 6 THEN sub_hl(M)
       ELSE IF xx = 2 /\ yyy = 3 /\ zzz = 6 THEN sbc_ahl(M)
       ELSE IF xx = 2 /\ yyy = 4 /\ zzz = 6 THEN and_hl(M)
       ELSE IF xx = 2 /\ yyy = 6 /\ zzz = 6 THEN or_hl(M)
       ELSE IF xx = 2 /\ yyy = 5 /\ zzz = 6 THEN xor_hl(M)
       ELSE IF xx = 2 /\ yyy = 7 /\ zzz = 6 THEN cp_hl(M)
       ELSE IF xx = 2 /\ yyy = 0 THEN add_ar(M)
       ELSE IF xx = 2 /\ yyy = 1 THEN adc_ar(M)
       ELSE IF xx = 2 /\ yyy = 2 THEN sub_r(M)
       ELSE IF xx = 2 /\ yyy = 3 THEN sbc_ar(M)
       ELSE IF xx = 2 /\ yyy = 4 THEN and_r(M)
       ELSE IF xx = 2 /\ yyy = 6 THEN or_r(M)
       ELSE IF xx = 2 /\ yyy = 5 THEN xor_r(M)
       ELSE IF xx = 2 /\ yyy = 7 THEN cp_r(M)
       ELSE IF xx = 3 /\ yyy = 7 /\ zzz = 2 THEN ld_a_addr_nn(M)
       ELSE IF xx = 3 /\ yyy = 5 /\ zzz = 2 THEN ld_addr_nn_a(M)
       ELSE IF xx = 3 /\ yyy = 6 /\ zzz = 2 THEN ldh_a_addr_offset_c(M)
       ELSE IF xx = 3 /\ yyy = 4 /\ zzz = 2 THEN ldh_addr_offset_c_a(M)
       ELSE IF xx = 3 /\ yyy = 6 /\ zzz = 0 THEN ldh_a_addr_offset_n(M)
       ELSE IF xx = 3 /\ yyy = 4 /\ zzz = 0 THEN ldh_addr_offset_n_a(M)
       ELSE IF xx = 3 /\ yyy = 7 /\ zzz = 1 THEN ld_sp_hl(M)
       ELSE IF xx = 3 /\ yyy = 0 /\ zzz = 6 THEN add_an(M)
       ELSE IF xx = 3 /\ yyy = 1 /\ zzz = 6 THEN adc_an(M)
       ELSE IF xx = 3 /\ yyy = 2 /\ zzz = 6 THEN sub_n(M)
       ELSE IF xx = 3 /\ yyy = 3 /\ zzz = 6 THEN sbc_an(M)
       ELSE IF xx = 3 /\ yyy = 4 /\ zzz = 6 THEN and_n(M)
       ELSE IF xx = 3 /\ yyy = 6 /\ zzz = 6 THEN or_n(M)
       ELSE IF xx = 3 /\ yyy = 5 /\ zzz = 6 THEN xor_n(M)
       ELSE IF xx = 3 /\ yyy = 7 /\ zzz = 6 THEN cp_n(M)
       ELSE IF xx = 3 /\ yyy = 5 /\ zzz = 0 THEN add_spe(M)
       ELSE IF xx = 3 /\ yyy = 0 /\ zzz = 3 THEN jp_nn(M)
       ELSE IF xx = 3 /\ yyy = 5 /\ zzz = 1 THEN jp_hl(M)
       ELSE IF xx = 3 /\ yyy = 1 /\ zzz = 5 THEN call_nn(M)
       ELSE IF xx = 3 /\ yyy = 1 /\ zzz = 1 THEN ret(M)
       ELSE IF xx = 3 /\ yyy = 3 /\ zzz = 1 THEN reti(M)
       ELSE IF xx = 3 /\ yyy = 6 /\ zzz = 3 THEN di(M)
       ELSE IF xx = 3 /\ yyy = 7 /\ zzz = 3 THEN ei(M)
       ELSE IF xx = 3 /\ yyy = 1 /\ zzz = 3 THEN execute_bc(M, M.reg.pc)
       ELSE IF xx = 3 /\ yyy = 7 /\ zzz = 0 THEN ld_hl_sp_e(M)
       ELSE IF xx = 3 /\ zzz = 5 /\ is_aa0 THEN push_rr(M)
       ELSE IF xx = 3 /\ zzz = 1 /\ is_aa0 THEN pop_rr(M)
       ELSE IF xx = 3 /\ zzz = 2 /\ is_0bb THEN jp_cc_nn(M)
       ELSE IF xx = 3 /\ zzz = 4 /\ is_0bb THEN call_cc_nn(M)
       ELSE IF xx = 3 /\ zzz = 0 /\ is_0bb THEN ret_cc(M)
       ELSE IF xx = 3 /\ zzz = 7 THEN rst_n(M)
       ELSE AbortWith(M, "No such opcode")

\* the ProgramCounter an executor returned, applied to PC
ApplyPc(M, pcu) ==
    IF pcu.kind = "Jump" THEN [M EXCEPT !.reg.pc = pcu.by]
    ELSE IF pcu.by < 0
    THEN (IF Aborts(M, M.reg.pc + pcu.by) THEN Panic(M)
          ELSE [M EXCEPT !.reg.pc = Wrap16(M.reg.pc + pcu.by)])
    ELSE [M EXCEPT !.reg.pc = Wrap16(M.reg.pc + pcu.by)]

\* the machine after the instruction and the cycles it returned
pc_applied(ex) ==
    LET after == ApplyPc(ex.m, ex.pcu)
    IN IF ex.m.fatal THEN [m |-> ex.m, cycles |-> 0]
       ELSE [m |-> after, cycles |-> IF after.fatal THEN 0 ELSE ex.pcu.cycles]

execute_opcode(M) == pc_applied(Dispatch(M))

(***************************************************************************)
(* The interrupt check.                                                    *)
(***************************************************************************)
\* the machine after the check and the cycles it returned
\* the match on the lowest set bit: its handler address, None where the
\* code panics
int_hardware_shifted(interrupt_bit) ==
    CASE interrupt_bit = 0 -> 72
      [] interrupt_bit = 1 -> 80
      [] interrupt_bit = 2 -> 88
      [] interrupt_bit = 3 -> 96
      [] interrupt_bit = 4 -> 64
      [] OTHER -> None

int_hardware_of(interrupt_bit) ==
    CASE interrupt_bit = 0 -> 64
      [] interrupt_bit = 1 -> 72
      [] interrupt_bit = 2 -> 80
      [] interrupt_bit = 3 -> 88
      [] interrupt_bit = 4 -> 96
      [] OTHER -> None

\* a halted CPU stays halted only while IF & IE is zero
wake_only_if_ime(M, all_ints) ==
    IF M.halt_mode /\ M.reg.ime THEN [M EXCEPT !.halt_mode = (all_ints = 0)] ELSE M

wake_from_halt(M, all_ints) ==
    IF M.halt_mode THEN [M EXCEPT !.halt_mode = (all_ints = 0)] ELSE M

\* an interrupt check that enters the handler with IME still set
handle_interrupt_keeps_ime(M) ==
    LET all_ints == And8(M.int_flags, M.int_enable)
        woken == wake_from_halt(M, all_ints)
        interrupt_bit == TrailingZeros(all_ints)
        int_hardware == int_hardware_of(interrupt_bit)
        acked == [woken EXCEPT
                    !.int_flags = And8(woken.int_flags, Shl8(255, interrupt_bit + 1))]
        pushed == push_u16(acked, acked.reg.pc)
    IN IF ~woken.reg.ime \/ all_ints = 0 THEN [m |-> woken, cycles |-> 0]
       ELSE IF int_hardware = None THEN [m |-> Panic(woken), cycles |-> 0]
       ELSE IF pushed.fatal THEN [m |-> pushed, cycles |-> 0]
       ELSE [m |-> [pushed EXCEPT !.reg.pc = int_hardware], cycles |-> 20]

handle_interrupt(M) ==
    LET all_ints == And8(M.int_flags, M.int_enable)
        woken == wake_from_halt(M, all_ints)
        interrupt_bit == TrailingZeros(all_ints)
        int_hardware == int_hardware_of(interrupt_bit)
        acked == [woken EXCEPT
                    !.int_flags = And8(woken.int_flags, Shl8(255, interrupt_bit + 1)),
                    !.reg.ime = FALSE]
        pushed == push_u16(acked, acked.reg.pc)
    IN IF ~woken.reg.ime \/ all_ints = 0 THEN [m |-> woken, cycles |-> 0]
       ELSE IF int_hardware = None THEN [m |-> Panic(woken), cycles |-> 0]
       ELSE IF pushed.fatal THEN [m |-> pushed, cycles |-> 0]
       ELSE [m |-> [pushed EXCEPT !.reg.pc = int_hardware], cycles |-> 20]

(***************************************************************************)
(* step: the instruction, then the interrupt check, then the bus is told   *)
(* the elapsed cycles.  flush is the sequence of cycle_flush calls made.   *)
(***************************************************************************)
\* the end of step with the bus told the instruction cycles only
after_interrupt_flush_instruction_cycles(M, ex, hi) ==
    LET seen == [kind |-> "step", pre |-> M, mid |-> ex.m,
                 inst_cycles |-> ex.cycles, int_cycles |-> 0,
                 flush |-> << >>, ret |-> None]
    IN IF ex.m.fatal THEN [m |-> ex.m, seen |-> seen]
       ELSE IF hi.m.fatal THEN [m |-> hi.m, seen |-> seen]
       ELSE [m |-> hi.m,
             seen |-> [seen EXCEPT !.int_cycles = hi.cycles,
                                   !.flush = <<ex.cycles>>,
                                   !.ret = ex.cycles + hi.cycles]]

\* the end of step: ex is what execute_opcode returned and left, hi what
\* handle_interrupt did; the bus is told the sum, which is returned
after_interrupt(M, ex, hi) ==
    LET elapsed_cycles == ex.cycles + hi.cycles
        seen == [kind |-> "step", pre |-> M, mid |-> ex.m,
                 inst_cycles |-> ex.cycles, int_cycles |-> 0,
                 flush |-> << >>, ret |-> None]
    IN IF ex.m.fatal THEN [m |-> ex.m, seen |-> seen]
       ELSE IF hi.m.fatal THEN [m |-> hi.m, seen |-> seen]
       ELSE [m |-> hi.m,
             seen |-> [seen EXCEPT !.int_cycles = hi.cycles,
                                   !.flush = <<elapsed_cycles>>,
                                   !.ret = elapsed_cycles]]

\* step once the instruction is done: the interrupt check on what it left
after_instruction(M, ex) == after_interrupt(M, ex, handle_interrupt(ex.m))

step(M) == after_instruction(M, execute_opcode(M))

(***************************************************************************)
(* The state machine.                                                      *)
(***************************************************************************)
\* Registers::new
\* a constructor that leaves the pair views zero
RegistersNew_pairs_zero ==
    [a |-> 1, b |-> 0, c |-> 19, d |-> 0, e |-> 216, h |-> 1, l |-> 77,
     bc |-> 0, de |-> 0, hl |-> 0,
     f |-> 176, sp |-> 65534, pc |-> 256, ime |-> TRUE]

RegistersNew ==
    [a |-> 1, b |-> 0, c |-> 19, d |-> 0, e |-> 216, h |-> 1, l |-> 77,
     bc |-> 19, de |-> 216, hl |-> 333,
     f |-> 176, sp |-> 65534, pc |-> 256, ime |-> TRUE]

NoStep == [kind |-> "none"]

\* Cpu::new, over a bus with no interrupt requested or enabled
Init ==
    /\ reg = RegistersNew
    /\ stack = << >>
    /\ halt_mode = FALSE
    /\ stop_mode = FALSE
    /\ mem = << >>
    /\ int_flags = 0
    /\ int_enable = 0
    /\ fatal = FALSE
    /\ overflow_checks \in BOOLEAN
    /\ last = NoStep
    /\ steps = 0

\* the Cpu and its bus as one value, with the bytes the bus will supply
Machine(in) ==
    [reg |-> reg, stack |-> stack, halt_mode |-> halt_mode, stop_mode |-> stop_mode,
     mem |-> mem, int_flags |-> int_flags, int_enable |-> int_enable,
     fatal |-> fatal, overflow_checks |-> overflow_checks, bus_in |-> in,
     diag |-> "none"]

Install(M) ==
    /\ reg' = M.reg
    /\ stack' = M.stack
    /\ halt_mode' = M.halt_mode
    /\ stop_mode' = M.stop_mode
    /\ mem' = M.mem
    /\ int_flags' = M.int_flags
    /\ int_enable' = M.int_enable
    /\ fatal' = M.fatal
    /\ UNCHANGED overflow_checks

\* the instructions the bus supplies in Spec: opcode, the two bytes after it,
\* and the byte found at any other unwritten address
Ins(op, n1, n2) == [at |-> 0, op |-> op, n1 |-> n1, n2 |-> n2, d |-> 0]

Program ==
    { Ins(0, 0, 0),        \* NOP
      Ins(251, 0, 0),      \* EI
      Ins(243, 0, 0),      \* DI
      Ins(217, 0, 0),      \* RETI
      Ins(201, 0, 0),      \* RET
      Ins(118, 0, 0),      \* 0x76
      Ins(16, 0, 0),       \* STOP
      Ins(60, 0, 0),       \* INC A
      Ins(197, 0, 0),      \* PUSH BC
      Ins(49, 1, 0),       \* LD SP,0x0001
      Ins(211, 0, 0) }     \* 0xD3, not an instruction

\* the values <<IF, IE>> the console gives the interrupt bytes between steps:
\* each of the five sources alone, several at once, a request that is not
\* enabled (alone and below an enabled one), and the unused bits 5-7
IntPairs ==
    { <<0, 0>>, <<1, 1>>, <<2, 2>>, <<4, 4>>, <<8, 8>>, <<16, 16>>,
      <<5, 5>>, <<20, 20>>, <<31, 31>>, <<1, 0>>, <<5, 4>>, <<32, 32>>, <<255, 255>> }

\* one call of Cpu::step
Step(ins) ==
    /\ ~fatal
    /\ steps < MaxSteps
    /\ \E r \in {step(Machine([ins EXCEPT !.at = reg.pc]))} :
          /\ Install(r.m)
          /\ last' = r.seen
    /\ steps' = steps + 1

\* the console, which owns the bus, sets the interrupt bytes between steps
BusSetsInterrupts(p) ==
    /\ ~fatal
    /\ <<int_flags, int_enable>> # p
    /\ int_flags' = p[1]
    /\ int_enable' = p[2]
    /\ last' = NoStep
    /\ UNCHANGED <<reg, stack, halt_mode, stop_mode, mem, fatal, overflow_checks, steps>>

\* a direct call of the public method halt; no opcode reaches it
Halt ==
    /\ ~fatal
    /\ ~halt_mode
    /\ Install(halt(Machine(Ins(0, 0, 0))).m)
    /\ last' = NoStep
    /\ UNCHANGED steps

Next ==
    \/ \E ins \in Program : Step(ins)
    \/ \E p \in IntPairs : BusSetsInterrupts(p)
    \/ Halt

Spec == Init /\ [][Next]_vars

(***************************************************************************)
(* What a step shows.  While last.kind = "step" the variables hold the     *)
(* state the step left, last.pre the state it started from and last.mid    *)
(* the state between the instruction and the interrupt check.              *)
(***************************************************************************)
Stepped == last.kind = "step"

\* the interrupt check of the last step was reached
Checked == Stepped /\ ~last.mid.fatal

\* the last step returned
Completed == Stepped /\ ~fatal

\* the opcode the last step fetched
LastOpcode == BusRead(last.pre, last.pre.reg.pc)

\* IF & IE & 0x1F
Pending(M) == And8(And8(M.int_flags, M.int_enable), 31)

StackByte(i) == IF i \in DOMAIN stack THEN stack[i] ELSE 0

\* the interrupt check of the last step changed nothing but halt_mode
NoDispatch ==
    /\ ~fatal
    /\ last.int_cycles = 0
    /\ last.ret = last.inst_cycles
    /\ reg = last.mid.reg
    /\ stack = last.mid.stack
    /\ mem = last.mid.mem
    /\ int_flags = last.mid.int_flags
    /\ int_enable = last.mid.int_enable

\* the interrupt check of the last step entered the handler of source k
DispatchedTo(k) ==
    /\ ~fatal
    /\ reg.pc = 64 + 8 * k
    /\ reg.sp = (last.mid.reg.sp + W16 - 2) % W16
    /\ StackByte((last.mid.reg.sp + W16 - 1) % W16) = last.mid.reg.pc \div 256
    /\ StackByte((last.mid.reg.sp + W16 - 2) % W16) = last.mid.reg.pc % 256
    /\ Bit(int_flags, k) = 0
    /\ reg.ime = FALSE
    /\ last.int_cycles = 20
    /\ last.ret = last.inst_cycles + 20

(***************************************************************************)
(* Interrupt dispatch.                                                     *)
(***************************************************************************)
\* C1: when a step reaches its interrupt check with IME true and
\* IF & IE & 0x1F nonzero and returns, it has pushed the PC the instruction
\* left, cleared the IF bit of the lowest-numbered pending source k, cleared
\* IME, set PC to 0x40 + 8k and added 20 to the cycles of the step; sources
\* above k that were requested stay requested, so only one is entered.
C1_DispatchLowestPending ==
    (Completed /\ last.mid.reg.ime /\ Pending(last.mid) # 0) =>
        LET k == TrailingZeros(Pending(last.mid))
        IN /\ DispatchedTo(k)
           /\ reg.pc \in {64, 72, 80, 88, 96}
           /\ \A j \in (k + 1)..7 : Bit(int_flags, j) = Bit(last.mid.int_flags, j)
           /\ int_enable = last.mid.int_enable

\* a step entered the timer handler (source 2) with source 4 also pending
C1_Witness ==
    /\ Completed
    /\ last.mid.reg.ime
    /\ And8(last.mid.int_flags, last.mid.int_enable) = 20
    /\ reg.pc = 80
    /\ Bit(int_flags, 4) = 1

\* C2: a step that enters the handler of source k leaves IF as it was at
\* the check with bit k alone cleared, every other bit keeping its value,
\* and leaves IE as it was.
C2_OnlyDispatchedBitCleared ==
    (Completed /\ last.mid.reg.ime /\ Pending(last.mid) # 0) =>
        LET k == TrailingZeros(Pending(last.mid))
        IN /\ int_flags = last.mid.int_flags - Pow2(k)
           /\ int_enable = last.mid.int_enable

\* C3: a step whose interrupt check finds IME false, or IF & IE & 0x1F zero,
\* enters no handler: the check costs no cycles and leaves PC, SP, IF, IE,
\* IME and the stack as the instruction left them, whatever bits 5-7 hold.
C3_NoDispatchWithoutPending ==
    (Checked /\ (~last.mid.reg.ime \/ Pending(last.mid) = 0)) => NoDispatch

\* C4: a step that executes EI with IME false enters no handler, also when
\* one of the five sources is pending, so the instruction after EI runs
\* before any interrupt is taken (IF & IE within bits 0-4).
C4_EiDelaysOneInstruction ==
    (Checked /\ LastOpcode = 251 /\ ~last.pre.reg.ime
        /\ And8(last.mid.int_flags, last.mid.int_enable) < 32) => NoDispatch

\* C5: the step that executes DI enters no handler and leaves IME false,
\* and from a state with IME false every step of an opcode other than EI
\* and RETI enters no handler and leaves IME false, whatever IF and IE hold;
\* nothing between steps sets IME.
C5_NoDispatchWhileDisabled ==
    [][ /\ (steps' # steps /\ ~last'.mid.fatal
              /\ (LastOpcode' = 243 \/ (~reg.ime /\ LastOpcode' \notin {251, 217})))
            => (NoDispatch' /\ ~reg'.ime)
        /\ (steps' = steps) => (reg'.ime = reg.ime)
      ]_vars

\* the NOP after a DI, stepped with IME false and all five sources pending
C5_Witness ==
    /\ Stepped
    /\ LastOpcode = 0
    /\ ~last.pre.reg.ime
    /\ Pending(last.mid) = 31
    /\ reg.pc = 258
    /\ ~reg.ime

\* C6: the instruction phase of a step that executes RETI leaves PC at the
\* 16-bit value popped from the stack (low byte at SP, high byte at SP+1),
\* SP two higher, costs 4 cycles, and leaves IME true for the interrupt
\* check of the same step, which therefore enters a pending handler.
C6_RetiPopsAndEnables ==
    (Checked /\ LastOpcode = 217) =>
        LET sp == last.pre.reg.sp
        IN /\ last.mid.reg.pc = StackAt(last.pre, (sp + 1) % W16) * 256
                                    + StackAt(last.pre, sp)
           /\ last.mid.reg.sp = (sp + 2) % W16
           /\ last.inst_cycles = 4
           /\ last.mid.reg.ime
           /\ last.mid.reg = [ret(last.pre).m.reg EXCEPT !.pc = last.mid.reg.pc,
                                                         !.ime = TRUE]
           /\ (Completed /\ Pending(last.mid) # 0) => last.int_cycles = 20

\* RETI returned to 0x0101, the PC an interrupt had pushed, with IME false
\* before it
C6_Witness ==
    /\ Checked
    /\ LastOpcode = 217
    /\ ~last.pre.reg.ime
    /\ last.pre.reg.sp = 65532
    /\ last.mid.reg.pc = 257
    /\ last.mid.reg.ime

(***************************************************************************)
(* HALT.                                                                   *)
(***************************************************************************)
\* C7: after a step that fetches opcode 0x76 with IF & IE zero, halt_mode
\* is true.
C7_Opcode76Halts ==
    (Checked /\ LastOpcode = 118
        /\ And8(last.mid.int_flags, last.mid.int_enable) = 0) => halt_mode

\* C8: the instruction phase of a step that begins with halt_mode true
\* leaves PC and every register as they were and costs exactly 1 cycle.
C8_HaltedStepFetchesNothing ==
    (Stepped /\ last.pre.halt_mode) =>
        /\ ~last.mid.fatal
        /\ last.mid.reg = last.pre.reg
        /\ last.inst_cycles = 1

C10_StepOrderAndFlush ==
    Completed =>
        /\ last.flush = << last.inst_cycles + last.int_cycles >>
        /\ last.ret = last.inst_cycles + last.int_cycles
        /\ last.int_cycles \in {0, 20}
        /\ (LastOpcode = 0) => (last.inst_cycles = 1)
        /\ (reg.pc \in {64, 72, 80, 88, 96} /\ reg.pc # last.mid.reg.pc)
               => last.int_cycles = 20
        /\ (last.int_cycles = 20 /\ LastOpcode \in {0, 251})
               => /\ StackByte(reg.sp) = ((last.pre.reg.pc + 1) % W16) % 256
                  /\ StackByte((reg.sp + 1) % W16) = ((last.pre.reg.pc + 1) % W16) \div 256
        /\ (LastOpcode = 243) => last.int_cycles = 0
        /\ (LastOpcode \in {251, 217} /\ Pending(last.mid) # 0) => last.int_cycles = 20

\* a NOP at 0x0100 was followed in the same step by the entry of a handler:
\* 1 + 20 cycles flushed and returned, 0x0101 on the stack
C10_Witness ==
    /\ Completed
    /\ LastOpcode = 0
    /\ last.pre.reg.pc = 256
    /\ last.flush = << 21 >>
    /\ last.ret = 21
    /\ StackByte(reg.sp) = 1
    /\ StackByte(reg.sp + 1) = 1

(***************************************************************************)
(* PUSH and POP from power-on: any sequence of PUSH rr / POP rr over the   *)
(* pairs BC, DE and AF, with each step remembering the steps before it in  *)
(* last.prev.                                                              *)
(***************************************************************************)
StackSteps == 6

StackProgram ==
    { Ins(197, 0, 0), Ins(213, 0, 0), Ins(245, 0, 0),    \* PUSH BC, DE, AF
      Ins(193, 0, 0), Ins(209, 0, 0), Ins(241, 0, 0) }   \* POP BC, DE, AF

\* one call of Cpu::step on a PUSH or POP
StackStep(ins) ==
    /\ ~fatal
    /\ steps < StackSteps
    /\ \E r \in {step(Machine([ins EXCEPT !.at = reg.pc]))} :
          /\ Install(r.m)
          /\ last' = r.seen @@ [prev |-> last]
    /\ steps' = steps + 1

StackNext == \E ins \in StackProgram : StackStep(ins)

SpecStack == Init /\ [][StackNext]_vars

\* the step n steps before the last one (NoStep if there was none)
RECURSIVE Back(_, _)
Back(h, n) ==
    IF n = 0 THEN h
    ELSE IF h.kind = "step" /\ "prev" \in DOMAIN h THEN Back(h.prev, n - 1)
    ELSE NoStep

\* step h returned from its instruction
Ran(h) == h.kind = "step" /\ ~h.mid.fatal

OpcodeOf(h) == BusRead(h.pre, h.pre.reg.pc)

IsPush(h) == Ran(h) /\ OpcodeOf(h) \in {197, 213, 229, 245}
IsPop(h) == Ran(h) /\ OpcodeOf(h) \in {193, 209, 225, 241}

\* the pair a PUSH or POP opcode names: 0 BC, 1 DE, 2 HL, 3 AF
PairNamed(h) == (OpcodeOf(h) \div 16) % 4

\* the 16-bit value of pair id in the registers r, from its two halves
PairValue(r, id) ==
    CASE id = 0 -> r.b * 256 + r.c
      [] id = 1 -> r.d * 256 + r.e
      [] id = 2 -> r.h * 256 + r.l
      [] id = 3 -> r.a * 256 + r.f

\* C11: in every state reached from power-on the low four bits of F are
\* zero, also after POP AF.
C11_FLowNibbleZero == reg.f % 16 = 0

\* C13: when POP r completes right after a completed PUSH r of the same
\* pair, the pair holds the value it had before the PUSH, AF with the low
\* nibble of F zeroed, and SP is what it was before the PUSH.
C13_PushPopRoundTrip ==
    (IsPop(last) /\ IsPush(Back(last, 1)) /\ PairNamed(last) = PairNamed(Back(last, 1))) =>
        LET id == PairNamed(last)
            before == Back(last, 1).pre.reg
            old == PairValue(before, id)
        IN /\ PairValue(reg, id) = IF id = 3 THEN old - (old % 16) ELSE old
           /\ reg.sp = before.sp

\* C14: every PUSH that completes leaves SP two lower, and when three
\* completed PUSHes of values v1, v2, v3 are followed by three completed
\* POPs, the pairs the POPs name receive v3, v2, v1 in full, AF included.
C14_StackIsLifo ==
    /\ IsPush(last) => reg.sp = (last.pre.reg.sp + W16 - 2) % W16
    /\ (/\ IsPop(last) /\ IsPop(Back(last, 1)) /\ IsPop(Back(last, 2))
        /\ IsPush(Back(last, 3)) /\ IsPush(Back(last, 4)) /\ IsPush(Back(last, 5)))
       => LET v1 == PairValue(Back(last, 5).pre.reg, PairNamed(Back(last, 5)))
              v2 == PairValue(Back(last, 4).pre.reg, PairNamed(Back(last, 4)))
              v3 == PairValue(Back(last, 3).pre.reg, PairNamed(Back(last, 3)))
          IN /\ PairValue(Back(last, 2).mid.reg, PairNamed(Back(last, 2))) = v3
             /\ PairValue(Back(last, 1).mid.reg, PairNamed(Back(last, 1))) = v2
             /\ PairValue(reg, PairNamed(last)) = v1
             /\ reg.sp = Back(last, 5).pre.reg.sp

\* PUSH AF, PUSH BC, PUSH DE, POP AF, POP DE, POP BC from power-on: AF holds
\* the old DE, DE the old BC and BC the old AF
C14_Witness ==
    /\ steps = 6
    /\ ~fatal
    /\ IsPop(last) /\ IsPop(Back(last, 1)) /\ IsPop(Back(last, 2))
    /\ IsPush(Back(last, 3)) /\ IsPush(Back(last, 4)) /\ IsPush(Back(last, 5))
    /\ reg.a * 256 + reg.f = 216
    /\ reg.de = 19
    /\ reg.bc = 432
    /\ reg.sp = 65534

(***************************************************************************)
(* Every opcode from power-on: a step may fetch any of the 256 opcodes,    *)
(* followed by one of two operand settings (second byte, third byte, byte  *)
(* at every other unwritten address).  After 0xCB the second byte is the   *)
(* suffix: 0x35 is SWAP L, 0xC0 is SET 0,B.                                *)
(***************************************************************************)
AnySteps == 1

AnyOperands == { <<53, 18, 165>>, <<192, 254, 90>> }

AnyProgram ==
    { [at |-> 0, op |-> op, n1 |-> t[1], n2 |-> t[2], d |-> t[3]] :
        op \in Byte, t \in AnyOperands }

\* one call of Cpu::step on any opcode
AnyStep(ins) ==
    /\ ~fatal
    /\ steps < AnySteps
    /\ \E r \in {step(Machine([ins EXCEPT !.at = reg.pc]))} :
          /\ Install(r.m)
          /\ last' = r.seen
    /\ steps' = steps + 1

AnyNext == \E ins \in AnyProgram : AnyStep(ins)

SpecAny == Init /\ [][AnyNext]_vars

\* C12: in every state the pair views agree with their halves:
\* BC = (B << 8) | C, DE = (D << 8) | E, HL = (H << 8) | L.
C12_PairsCoherent ==
    /\ reg.bc = reg.b * 256 + reg.c
    /\ reg.de = reg.d * 256 + reg.e
    /\ reg.hl = reg.h * 256 + reg.l

\* LD B,0x35 has run from power-on: B is new, C is old, and BC shows both
C12_Witness ==
    /\ Completed
    /\ LastOpcode = 6
    /\ reg.b = 53
    /\ reg.c = 19
    /\ reg.bc = 53 * 256 + 19

\* C15: stack traffic goes through the bus: after a completed PUSH with old
\* stack pointer S the bus returns the high byte of the pushed value at S-1
\* and the low byte at S-2, and a completed POP loads the bytes the bus
\* holds at SP and SP+1.
C15_StackOnBus ==
    /\ IsPush(last) =>
          LET S == last.pre.reg.sp
              v == PairValue(last.pre.reg, PairNamed(last))
          IN /\ BusRead(last.mid, Wrap16(S + W16 - 1)) = v \div 256
             /\ BusRead(last.mid, Wrap16(S + W16 - 2)) = v % 256
    /\ IsPop(last) =>
          LET S == last.pre.reg.sp
          IN PairValue(last.mid.reg, PairNamed(last))
                = BusRead(last.pre, Wrap16(S + 1)) * 256 + BusRead(last.pre, S)

(***************************************************************************)
(* Calls and returns from power-on: CALL to two addresses (from 0xFFFD the *)
(* return address passes 0xFFFF), RET, jumps and stack pointer loads that  *)
(* vary where the CALL runs and where it pushes, and a PUSH as a stack     *)
(* change between CALL and RET.                                            *)
(***************************************************************************)
CallSteps == 4

CallProgram ==
    { Ins(205, 52, 18),     \* CALL 0x1234
      Ins(205, 253, 255),   \* CALL 0xFFFD
      Ins(201, 0, 0),       \* RET
      Ins(195, 0, 2),       \* JP 0x0200
      Ins(49, 1, 0),        \* LD SP,0x0001
      Ins(49, 0, 192),      \* LD SP,0xC000
      Ins(197, 0, 0) }      \* PUSH BC

\* one call of Cpu::step on a call, return, jump, load or push
CallStep(ins) ==
    /\ ~fatal
    /\ steps < CallSteps
    /\ \E r \in {step(Machine([ins EXCEPT !.at = reg.pc]))} :
          /\ Install(r.m)
          /\ last' = r.seen @@ [prev |-> last]
    /\ steps' = steps + 1

CallNext == \E ins \in CallProgram : CallStep(ins)

SpecCall == Init /\ [][CallNext]_vars

IsCall(h) == Ran(h) /\ OpcodeOf(h) = 205
IsRet(h) == Ran(h) /\ OpcodeOf(h) = 201

\* C16: a completed CALL nn fetched at P with stack pointer S leaves PC = nn
\* and SP = S - 2 with the return address P + 3 saved at the top of the
\* stack, and a completed RET that is the next instruction leaves
\* PC = P + 3 and SP = S (16-bit arithmetic).
C16_CallRetRoundTrip ==
    /\ IsCall(last) =>
          LET P == last.pre.reg.pc
              S == last.pre.reg.sp
          IN /\ reg.pc = get_nn(last.pre)
             /\ reg.sp = Wrap16(S + W16 - 2)
             /\ StackAt(last.mid, Wrap16(S + W16 - 1)) = Wrap16(P + 3) \div 256
             /\ StackAt(last.mid, Wrap16(S + W16 - 2)) = Wrap16(P + 3) % 256
    /\ (IsRet(last) /\ IsCall(Back(last, 1))) =>
          /\ reg.pc = Wrap16(Back(last, 1).pre.reg.pc + 3)
          /\ reg.sp = Back(last, 1).pre.reg.sp

\* JP 0x0200, CALL 0x1234, RET: back at 0x0203 with SP = 0xFFFE
C16_Witness ==
    /\ ~fatal
    /\ IsRet(last)
    /\ IsCall(Back(last, 1))
    /\ Back(last, 1).pre.reg.pc = 512
    /\ Back(last, 1).pre.reg.sp = 65534
    /\ last.pre.reg.pc = 4660
    /\ last.pre.reg.sp = 65532
    /\ reg.pc = 515
    /\ reg.sp = 65534

(***************************************************************************)
(* The 8-bit ALU on chosen operands.  The registers are loaded as LD and   *)
(* POP AF can load them: A with a, F with given flags, each of B, C, D, E, *)
(* H, L with b; the bus returns b for the immediate byte and for (HL).     *)
(* Then one ALU, INC or DEC instruction runs.  The values are the ones at  *)
(* which a nibble or a byte carries or borrows.                            *)
(***************************************************************************)
AluValues == { 0, 1, 8, 9, 15, 16, 17, 127, 128, 136, 153, 154, 160, 239, 240, 241, 254, 255 }

\* F before the instruction: no flag, C alone, all but C, all four
AluFlags == { 0, 16, 224, 240 }

\* 0x80-0xBF: ADD, ADC, SUB, SBC, AND, XOR, OR, CP with B C D E H L (HL) A;
\* 0xC6 + 8k: the same eight with an immediate byte
AluOpcodes == (128 .. 191) \cup { 198 + 8 * k : k \in 0 .. 7 }

\* 0x04 + 8r: INC (r or (HL)); 0x05 + 8r: DEC
IncDecOpcodes == { 4 + 8 * r : r \in 0 .. 7 } \cup { 5 + 8 * r : r \in 0 .. 7 }

AluRegisters(a0, f0, b0) ==
    [RegistersNew EXCEPT !.a = a0, !.f = f0,
                         !.b = b0, !.c = b0, !.bc = b0 * 256 + b0,
                         !.d = b0, !.e = b0, !.de = b0 * 256 + b0,
                         !.h = b0, !.l = b0, !.hl = b0 * 256 + b0]

AluInit ==
    /\ \E a0 \in AluValues, b0 \in AluValues, f0 \in AluFlags :
          reg = AluRegisters(a0, f0, b0)
    /\ stack = << >>
    /\ halt_mode = FALSE
    /\ stop_mode = FALSE
    /\ mem = << >>
    /\ int_flags = 0
    /\ int_enable = 0
    /\ fatal = FALSE
    /\ overflow_checks \in BOOLEAN
    /\ last = NoStep
    /\ steps = 0

\* one call of Cpu::step on opcode op; every operand byte on the bus is b
AluStep(op) ==
    /\ last = NoStep
    /\ \E r \in {step(Machine([at |-> reg.pc, op |-> op, n1 |-> reg.b,
                               n2 |-> reg.b, d |-> reg.b]))} :
          /\ Install(r.m)
          /\ last' = r.seen
    /\ steps' = steps + 1

AluNext == \E op \in AluOpcodes \cup IncDecOpcodes : AluStep(op)

SpecAlu == AluInit /\ [][AluNext]_vars

\* the operation an ALU opcode names: 0 ADD, 1 ADC, 2 SUB, 3 SBC, 4 AND,
\* 5 XOR, 6 OR, 7 CP
AluKind(op) == (op \div 8) % 8

\* the operand of the last step's ALU opcode: A itself for the register
\* form that names A, b otherwise
AluOperand == IF LastOpcode < 192 /\ LastOpcode % 8 = 7 THEN last.pre.reg.a
              ELSE last.pre.reg.b

\* the row of the section 4.3 table for operation k on a, b and carry-in cin
AluTable(k, a, b, cin) ==
    CASE k = 0 -> [res |-> (a + b) % 256, n |-> 0,
                   h |-> (a % 16) + (b % 16) > 15, c |-> a + b > 255]
      [] k = 1 -> [res |-> (a + b + cin) % 256, n |-> 0,
                   h |-> (a % 16) + (b % 16) + cin > 15, c |-> a + b + cin > 255]
      [] k = 2 -> [res |-> (a + 256 - b) % 256, n |-> 1,
                   h |-> (a % 16) < (b % 16), c |-> a < b]
      [] k = 3 -> [res |-> (a + 512 - b - cin) % 256, n |-> 1,
                   h |-> (a % 16) < (b % 16) + cin, c |-> a < b + cin]
      [] k = 4 -> [res |-> BitAnd(a, b, 8), n |-> 0, h |-> TRUE, c |-> FALSE]
      [] k = 5 -> [res |-> BitXor(a, b, 8), n |-> 0, h |-> FALSE, c |-> FALSE]
      [] k = 6 -> [res |-> BitOr(a, b, 8), n |-> 0, h |-> FALSE, c |-> FALSE]
      [] k = 7 -> [res |-> (a + 256 - b) % 256, n |-> 1,
                   h |-> (a % 16) < (b % 16), c |-> a < b]

\* F with flags z, n, h, c and a zero low nibble
FlagByte(z, n, h, c) ==
    (IF z THEN 128 ELSE 0) + n * 64 + (IF h THEN 32 ELSE 0) + (IF c THEN 16 ELSE 0)

\* C17: every step on an ALU opcode (ADD, ADC, SUB, SBC, AND, XOR, OR, CP
\* with a register, an immediate byte or (HL)) completes, leaves in A the
\* result of the section 4.3 table (the old A for CP) and in F the table's
\* Z, N, H, C.
C17_AluMatchesTable ==
    (Stepped /\ LastOpcode \in AluOpcodes) =>
        LET a == last.pre.reg.a
            k == AluKind(LastOpcode)
            row == AluTable(k, a, AluOperand, Bit(last.pre.reg.f, 4))
        IN /\ ~fatal
           /\ reg.a = IF k = 7 THEN a ELSE row.res
           /\ reg.f = FlagByte(row.res = 0, row.n, row.h, row.c)

\* ADC A,B with A = 0x0F, B = 0x00 and carry-in: A = 0x10 and only H is set
C17_Witness ==
    /\ Completed
    /\ LastOpcode = 136
    /\ last.pre.reg.a = 15
    /\ last.pre.reg.b = 0
    /\ last.pre.reg.f = 16
    /\ reg.a = 16
    /\ reg.f = 32

\* the register, or 6 for (HL), that an INC or DEC opcode names
IncDecTarget == (LastOpcode \div 8) % 8

\* the value machine M holds in the target of the last step's INC or DEC
IncDecValue(M) ==
    IF IncDecTarget = 6 THEN BusRead(M, last.pre.reg.hl)
    ELSE read_from_r8(M, IncDecTarget)

\* C18: every step on INC r, INC (HL), DEC r or DEC (HL) completes and
\* leaves in its target r + 1 or r - 1 modulo 256, with Z = (result = 0),
\* N = 0 for INC and 1 for DEC, H = ((r & 0xF) = 0xF) for INC and
\* ((r & 0xF) = 0) for DEC, and C as it was.
C18_IncDecMatchesTable ==
    (Stepped /\ LastOpcode \in IncDecOpcodes) =>
        LET r == IncDecValue(last.pre)
            is_inc == LastOpcode % 8 = 4
            res == IF is_inc THEN (r + 1) % 256 ELSE (r + 255) % 256
            h == IF is_inc THEN r % 16 = 15 ELSE r % 16 = 0
        IN /\ ~fatal
           /\ IncDecValue(last.mid) = res
           /\ reg.f = FlagByte(res = 0, IF is_inc THEN 0 ELSE 1, h,
                               Bit(last.pre.reg.f, 4) = 1)

\* INC B with B = 0x0F and C set: B = 0x10, H set, C still set
C18_Witness ==
    /\ Completed
    /\ LastOpcode = 4
    /\ last.pre.reg.b = 15
    /\ last.pre.reg.f = 16
    /\ reg.b = 16
    /\ reg.f = 48

(***************************************************************************)
(* DAA on every accumulator value and every setting of Z, N, H, C.         *)
(***************************************************************************)
DaaInit ==
    /\ \E a0 \in Byte, fl \in 0 .. 15 : reg = AluRegisters(a0, fl * 16, 0)
    /\ stack = << >>
    /\ halt_mode = FALSE
    /\ stop_mode = FALSE
    /\ mem = << >>
    /\ int_flags = 0
    /\ int_enable = 0
    /\ fatal = FALSE
    /\ overflow_checks \in BOOLEAN
    /\ last = NoStep
    /\ steps = 0

\* one call of Cpu::step on DAA (opcode 0x27)
DaaStep ==
    /\ last = NoStep
    /\ \E r \in {step(Machine([Ins(39, 0, 0) EXCEPT !.at = reg.pc]))} :
          /\ Install(r.m)
          /\ last' = r.seen
    /\ steps' = steps + 1

SpecDaa == DaaInit /\ [][DaaStep]_vars

\* C19: after DAA with N = 0, A has had 0x60 added iff C was set or A was
\* above 0x99 and 0x06 added iff H was set or A's low nibble was above 9;
\* with N = 1, 0x60 subtracted iff C was set and 0x06 subtracted iff H was
\* set (modulo 256).
C19_DaaResult ==
    (Completed /\ LastOpcode = 39) =>
        LET a == last.pre.reg.a
            f == last.pre.reg.f
            n == Bit(f, 6) = 1
            h == Bit(f, 5) = 1
            c == Bit(f, 4) = 1
            high == IF n THEN (IF c THEN 256 - 96 ELSE 0)
                    ELSE (IF c \/ a > 153 THEN 96 ELSE 0)
            low == IF n THEN (IF h THEN 256 - 6 ELSE 0)
                   ELSE (IF h \/ a % 16 > 9 THEN 6 ELSE 0)
        IN reg.a = (a + high + low) % 256

\* C20: after DAA, Z = (new A = 0), H = 0, N is what it was, and
\* C = (old C) or (N = 0 and old A > 0x99).
C20_DaaFlags ==
    (Completed /\ LastOpcode = 39) =>
        LET a == last.pre.reg.a
            f == last.pre.reg.f
        IN reg.f = FlagByte(reg.a = 0, Bit(f, 6), FALSE,
                            Bit(f, 4) = 1 \/ (Bit(f, 6) = 0 /\ a > 153))

(***************************************************************************)
(* The accumulator rotates on every accumulator value and every setting of *)
(* Z, N, H, C.                                                             *)
(***************************************************************************)
\* RLCA, RRCA, RLA, RRA
AccRotateOpcodes == { 7, 15, 23, 31 }

\* one call of Cpu::step on an accumulator rotate
AccRotateStep(op) ==
    /\ last = NoStep
    /\ \E r \in {step(Machine([Ins(op, 0, 0) EXCEPT !.at = reg.pc]))} :
          /\ Install(r.m)
          /\ last' = r.seen
    /\ steps' = steps + 1

AccRotateNext == \E op \in AccRotateOpcodes : AccRotateStep(op)

SpecAccRotate == DaaInit /\ [][AccRotateNext]_vars

\* C21: after RLCA, RRCA, RLA or RRA the flags are Z = 0, N = 0, H = 0 and
\* C = the bit shifted out of A (bit 7 for the left rotates, bit 0 for the
\* right ones), whatever the result.
C21_AccRotateFlags ==
    (Completed /\ LastOpcode \in AccRotateOpcodes) =>
        LET out == IF LastOpcode \in {7, 23} THEN Bit(last.pre.reg.a, 7)
                   ELSE Bit(last.pre.reg.a, 0)
        IN reg.f = FlagByte(FALSE, 0, FALSE, out = 1)

(***************************************************************************)
(* 16-bit arithmetic on chosen operands.  HL holds one value, BC, DE and   *)
(* SP another, the byte after the opcode is the offset e, and F is given.  *)
(* Then one of ADD SP,e, LD HL,SP+e and ADD HL,ss runs.  The values are    *)
(* the ones at which bit 3, 7, 11 or 15 carries.                           *)
(***************************************************************************)
WideValues == { 0, 1, 15, 240, 255, 256, 2048, 4095, 4096, 32767, 32768,
                61440, 63488, 65280, 65520, 65535 }

\* offsets: zero, small, 0x0F, 0x10, 0x7F, -128, -16 (0xF0), -5, -1
WideOffsets == { 0, 1, 5, 15, 16, 127, 128, 240, 251, 255 }

\* F before the instruction: no flag, Z alone, all four
WideFlags == { 0, 128, 240 }

\* ADD SP,e; LD HL,SP+e; ADD HL,BC / DE / HL / SP
WideOpcodes == { 232, 248, 9, 25, 41, 57 }

WideRegisters(hl0, ss0, f0) ==
    [RegistersNew EXCEPT !.f = f0, !.sp = ss0,
                         !.hl = hl0, !.h = hl0 \div 256, !.l = hl0 % 256,
                         !.bc = ss0, !.b = ss0 \div 256, !.c = ss0 % 256,
                         !.de = ss0, !.d = ss0 \div 256, !.e = ss0 % 256]

WideInit ==
    /\ \E hl0 \in WideValues, ss0 \in WideValues, f0 \in WideFlags :
          reg = WideRegisters(hl0, ss0, f0)
    /\ stack = << >>
    /\ halt_mode = FALSE
    /\ stop_mode = FALSE
    /\ mem = << >>
    /\ int_flags = 0
    /\ int_enable = 0
    /\ fatal = FALSE
    /\ overflow_checks \in BOOLEAN
    /\ last = NoStep
    /\ steps = 0

\* one call of Cpu::step on opcode op followed by the byte e
WideStep(op, e) ==
    /\ last = NoStep
    /\ \E r \in {step(Machine([Ins(op, e, 0) EXCEPT !.at = reg.pc]))} :
          /\ Install(r.m)
          /\ last' = r.seen
    /\ steps' = steps + 1

WideNext == \E op \in WideOpcodes, e \in WideOffsets : WideStep(op, e)

SpecWide == WideInit /\ [][WideNext]_vars

\* the byte after the opcode of the last step
LastOffset == BusRead(last.pre, Wrap16(last.pre.reg.pc + 1))

\* a byte read as a signed offset
SignExtend(e) == IF e >= 128 THEN e - 256 ELSE e

\* C22: ADD SP,e leaves SP = (SP + sign_extend(e)) mod 2^16, Z = 0, N = 0,
\* H = ((SP & 0x0F) + (e & 0x0F) > 0x0F), C = ((SP & 0xFF) + (e & 0xFF) > 0xFF).
C22_AddSpSigned ==
    (Completed /\ LastOpcode = 232) =>
        LET sp == last.pre.reg.sp
            e == LastOffset
        IN /\ reg.sp = (sp + W16 + SignExtend(e)) % W16
           /\ reg.f = FlagByte(FALSE, 0, (sp % 16) + (e % 16) > 15,
                               (sp % 256) + e > 255)

\* C23: LD HL,SP+e leaves HL = (SP + sign_extend(e)) mod 2^16 and SP as it
\* was, Z = 0, N = 0, H = ((SP & 0x0F) + (e & 0x0F) > 0x0F),
\* C = ((SP & 0xFF) + (e & 0xFF) > 0xFF).
C23_LdHlSpOffset ==
    (Completed /\ LastOpcode = 248) =>
        LET sp == last.pre.reg.sp
            e == LastOffset
        IN /\ reg.hl = (sp + W16 + SignExtend(e)) % W16
           /\ reg.sp = sp
           /\ reg.f = FlagByte(FALSE, 0, (sp % 16) + (e % 16) > 15,
                               (sp % 256) + e > 255)

\* C24: every step on ADD HL,ss (ss = BC, DE, HL, SP) completes and leaves
\* HL = (HL + ss) mod 2^16, N = 0, H = ((HL & 0x0FFF) + (ss & 0x0FFF) > 0x0FFF),
\* C = (HL + ss > 0xFFFF) and Z as it was.
C24_AddHlPair ==
    (Stepped /\ LastOpcode \in {9, 25, 41, 57}) =>
        LET hl == last.pre.reg.hl
            ss == CASE LastOpcode = 9 -> last.pre.reg.b * 256 + last.pre.reg.c
                    [] LastOpcode = 25 -> last.pre.reg.d * 256 + last.pre.reg.e
                    [] LastOpcode = 41 -> hl
                    [] LastOpcode = 57 -> last.pre.reg.sp
        IN /\ ~fatal
           /\ reg.hl = (hl + ss) % W16
           /\ reg.h * 256 + reg.l = (hl + ss) % W16
           /\ reg.f = FlagByte(Bit(last.pre.reg.f, 7) = 1, 0,
                               (hl % 4096) + (ss % 4096) > 4095, hl + ss > 65535)

\* ADD HL,DE with HL = 0x0FFF, DE = 0x0001 and Z set: HL = 0x1000, H set,
\* C clear, Z still set
C24_Witness ==
    /\ Completed
    /\ LastOpcode = 25
    /\ last.pre.reg.hl = 4095
    /\ last.pre.reg.de = 1
    /\ last.pre.reg.f = 128
    /\ reg.hl = 4096
    /\ reg.f = 160

(***************************************************************************)
(* Decoding from power-on: one step on any primary opcode, or on 0xCB      *)
(* followed by any suffix.                                                 *)
(***************************************************************************)
\* every primary opcode followed by 0x35 0x12, and 0xCB with every suffix
DecodeProgram == { Ins(op, 53, 18) : op \in Byte } \cup { Ins(203, sfx, 18) : sfx \in Byte }

\* one call of Cpu::step
DecodeStep(ins) ==
    /\ last = NoStep
    /\ \E r \in {step(Machine([ins EXCEPT !.at = reg.pc]))} :
          /\ Install(r.m)
          /\ last' = r.seen
    /\ steps' = steps + 1

DecodeNext == \E ins \in DecodeProgram : DecodeStep(ins)

SpecDecode == Init /\ [][DecodeNext]_vars

\* 0xD3 0xDB 0xDD 0xE3 0xE4 0xEB 0xEC 0xED 0xF4 0xFC 0xFD
UndefinedOpcodes == { 211, 219, 221, 227, 228, 235, 236, 237, 244, 252, 253 }

\* the last step ended in the decoder's "no such opcode" panic
DecodeFailed ==
    /\ Stepped
    /\ fatal
    /\ last.mid.diag \in { "No such opcode", "No such opcode in BC" }

\* C25: a step that fetches one of the eleven undefined primary opcodes
\* aborts in the decoder and changes no register; a step that fetches any
\* other primary opcode, or 0xCB with any suffix, does not abort in a
\* decoder.
C25_DecodeFailure ==
    Stepped =>
        IF LastOpcode \in UndefinedOpcodes
        THEN DecodeFailed /\ reg = last.pre.reg
        ELSE ~DecodeFailed

\* 0xD3 was fetched and the step aborted in the decoder
C25_Witness ==
    /\ DecodeFailed
    /\ LastOpcode = 211
    /\ last.mid.diag = "No such opcode"
    /\ reg.pc = 256

\* C26: no step, on any primary opcode or any CB suffix, aborts in a
\* register write given an invalid register ID or in an unwrap of a
\* register read that returned None.
C26_NoInvalidRegister ==
    Stepped => last.mid.diag \notin { "Invalid register", "unwrap on None" }

\* 0x76 names register 110 as its source: the step completes, and nothing
\* is written
C26_Witness ==
    /\ Completed
    /\ LastOpcode = 118
    /\ last.mid.diag = "none"
    /\ mem = << >>
    /\ reg.pc = 257

(***************************************************************************)
(* Jumps from chosen addresses: PC is near 0x0000, near 0xFFFF or in the   *)
(* middle, F is any setting of Z, N, H, C, and one jump (or ADD A,B or     *)
(* SUB (HL), for their cycle counts) runs with a chosen operand byte.      *)
(***************************************************************************)
\* 0x0000 0x0001 0x0100 0x0150 0x7FFF 0xFF80 0xFFFD 0xFFFE 0xFFFF
JumpPcs == { 0, 1, 256, 336, 32767, 65408, 65533, 65534, 65535 }

\* e: 0, +5, +127, -128, -3, -2, -1
JumpOffsets == { 0, 5, 127, 128, 253, 254, 255 }

\* JR e; JR NZ / Z / NC / C,e; JP NZ / Z / NC / C,nn; ADD A,B; SUB (HL)
JrCcOpcodes == { 32, 40, 48, 56 }
JpCcOpcodes == { 194, 202, 210, 218 }
JumpOpcodes == { 24, 128, 150 } \cup JrCcOpcodes \cup JpCcOpcodes

JumpInit ==
    /\ \E p \in JumpPcs, fl \in 0 .. 15 :
          reg = [RegistersNew EXCEPT !.pc = p, !.f = fl * 16]
    /\ stack = << >>
    /\ halt_mode = FALSE
    /\ stop_mode = FALSE
    /\ mem = << >>
    /\ int_flags = 0
    /\ int_enable = 0
    /\ fatal = FALSE
    /\ overflow_checks \in BOOLEAN
    /\ last = NoStep
    /\ steps = 0

\* one call of Cpu::step on opcode op followed by the bytes e and 0x12
JumpStep(op, e) ==
    /\ last = NoStep
    /\ \E r \in {step(Machine([Ins(op, e, 18) EXCEPT !.at = reg.pc]))} :
          /\ Install(r.m)
          /\ last' = r.seen
    /\ steps' = steps + 1

JumpNext == \E op \in JumpOpcodes, e \in JumpOffsets : JumpStep(op, e)

SpecJump == JumpInit /\ [][JumpNext]_vars

\* the condition bits 4-3 of the last step's opcode name holds before it:
\* 00 Z = 0, 01 Z = 1, 10 C = 0, 11 C = 1
ConditionHolds ==
    LET cc == (LastOpcode \div 8) % 4
        z == Bit(last.pre.reg.f, 7)
        c == Bit(last.pre.reg.f, 4)
    IN \/ cc = 0 /\ z = 0
       \/ cc = 1 /\ z = 1
       \/ cc = 2 /\ c = 0
       \/ cc = 3 /\ c = 1

\* C27: the cycle counts a step returns are T-states: 4 for ADD A,B, 8 for
\* SUB (HL), 12 for a taken JR NZ,e.
C27_CyclesAreTStates ==
    Completed =>
        /\ LastOpcode = 128 => last.ret = 4
        /\ LastOpcode = 150 => last.ret = 8
        /\ (LastOpcode = 32 /\ ConditionHolds) => last.ret = 12

\* C28: a step on JR e, or on JR cc,e whose condition holds, completes and
\* leaves PC = (PC + 2 + sign_extend(e)) mod 2^16, from every PC.
C28_RelativeJumpWraps ==
    (Stepped /\ (LastOpcode = 24 \/ (LastOpcode \in JrCcOpcodes /\ ConditionHolds))) =>
        /\ ~fatal
        /\ reg.pc = (last.pre.reg.pc + 2 + SignExtend(LastOffset) + W16) % W16

\* C30: a completed JP cc,nn or JR cc,e branches iff its condition holds:
\* JP cc,nn taken leaves PC = nn and costs 4, not taken PC + 3 and 3;
\* JR cc,e taken costs 3, not taken leaves PC + 2 and costs 2; F is as it
\* was.
C30_ConditionalJumps ==
    (Completed /\ LastOpcode \in JpCcOpcodes \cup JrCcOpcodes) =>
        LET pc == last.pre.reg.pc
            next == IF LastOpcode \in JpCcOpcodes THEN 3 ELSE 2
        IN /\ reg.f = last.pre.reg.f
           /\ ConditionHolds =>
                 /\ last.inst_cycles = next + 1
                 /\ reg.pc = IF LastOpcode \in JpCcOpcodes THEN get_nn(last.pre)
                             ELSE (pc + 2 + SignExtend(LastOffset) + W16) % W16
           /\ ~ConditionHolds =>
                 /\ last.inst_cycles = next
                 /\ reg.pc = (pc + next) % W16

\* JP Z,0x1205 at 0x0150 with only Z set: PC = 0x1205 after 4 cycles
C30_Witness ==
    /\ Completed
    /\ LastOpcode = 202
    /\ last.pre.reg.pc = 336
    /\ last.pre.reg.f = 128
    /\ reg.pc = 4613
    /\ last.inst_cycles = 4
    /\ reg.f = 128

CondPcs == { 256, 336, 65532, 65533 }

\* 0x0000 0x0001 0x0002 0xC000 0xFFFC 0xFFFE
CondSps == { 0, 1, 2, 49152, 65532, 65534 }

\* the return addresses an earlier push saved: 0x0000 0x1234 0xABCD
CondSaved == { 0, 4660, 43981 }

\* CALL NZ / Z / NC / C,nn and RET NZ / Z / NC / C
CallCcOpcodes == { 196, 204, 212, 220 }
RetCcOpcodes == { 192, 200, 208, 216 }

CondInit ==
    /\ \E p \in CondPcs, s \in CondSps, fl \in 0 .. 15 :
          reg = [RegistersNew EXCEPT !.pc = p, !.sp = s, !.f = fl * 16]
    /\ \E w \in CondSaved :
          stack = IF reg.sp <= 65533 /\ w # 0
                  THEN (reg.sp :> (w % 256)) @@ ((reg.sp + 1) :> (w \div 256))
                  ELSE << >>
    /\ halt_mode = FALSE
    /\ stop_mode = FALSE
    /\ mem = << >>
    /\ int_flags = 0
    /\ int_enable = 0
    /\ fatal = FALSE
    /\ overflow_checks \in BOOLEAN
    /\ last = NoStep
    /\ steps = 0

\* one call of Cpu::step on opcode op followed by the bytes 0x05 and 0x12
CondStep(op) ==
    /\ last = NoStep
    /\ \E r \in {step(Machine([Ins(op, 5, 18) EXCEPT !.at = reg.pc]))} :
          /\ Install(r.m)
          /\ last' = r.seen
    /\ steps' = steps + 1

CondNext == \E op \in CallCcOpcodes \cup RetCcOpcodes : CondStep(op)

SpecCond == CondInit /\ [][CondNext]_vars

\* C31: a completed CALL cc,nn whose condition fails leaves SP and the stack
\* as they were, PC + 3 and costs 3; one whose condition holds saves PC + 3
\* at SP - 1 and SP - 2, leaves SP - 2 and PC = nn and costs 6.  A completed
\* RET cc whose condition fails leaves SP and the stack as they were, PC + 1
\* and costs 2; one whose condition holds leaves PC = the word at SP, SP + 2
\* and costs 5.
C31_ConditionalCallRet ==
    LET P == last.pre.reg.pc
        S == last.pre.reg.sp
    IN /\ (Completed /\ LastOpcode \in CallCcOpcodes /\ ~ConditionHolds) =>
             /\ reg.sp = S
             /\ stack = last.pre.stack
             /\ reg.pc = Wrap16(P + 3)
             /\ last.inst_cycles = 3
       /\ (Completed /\ LastOpcode \in CallCcOpcodes /\ ConditionHolds) =>
             /\ reg.sp = Wrap16(S + W16 - 2)
             /\ StackByte(Wrap16(S + W16 - 1)) = Wrap16(P + 3) \div 256
             /\ StackByte(Wrap16(S + W16 - 2)) = Wrap16(P + 3) % 256
             /\ \A i \in DOMAIN last.pre.stack \ { Wrap16(S + W16 - 1), Wrap16(S + W16 - 2) } :
                   StackByte(i) = last.pre.stack[i]
             /\ reg.pc = get_nn(last.pre)
             /\ last.inst_cycles = 6
       /\ (Completed /\ LastOpcode \in RetCcOpcodes /\ ~ConditionHolds) =>
             /\ reg.sp = S
             /\ stack = last.pre.stack
             /\ reg.pc = Wrap16(P + 1)
             /\ last.inst_cycles = 2
       /\ (Completed /\ LastOpcode \in RetCcOpcodes /\ ConditionHolds) =>
             /\ reg.sp = Wrap16(S + 2)
             /\ stack = last.pre.stack
             /\ reg.pc = StackAt(last.pre, Wrap16(S + 1)) * 256 + StackAt(last.pre, S)
             /\ last.inst_cycles = 5

\* CALL Z,0x1205 at 0x0150 with Z clear and SP = 0xC000: nothing is saved
C31_Witness ==
    /\ Completed
    /\ LastOpcode = 204
    /\ last.pre.reg.pc = 336
    /\ last.pre.reg.sp = 49152
    /\ last.pre.reg.f = 16
    /\ last.pre.stack = (49152 :> 52) @@ (49153 :> 18)
    /\ stack = last.pre.stack
    /\ reg.sp = 49152
    /\ reg.pc = 339
    /\ last.inst_cycles = 3

(***************************************************************************)
(* The CB-prefixed instructions on chosen operands.  Every register holds  *)
(* v and the memory byte at HL holds its complement, so that a register    *)
(* operand and (HL) differ; F is one of four settings; one CB instruction  *)
(* runs, with any suffix, and with either of two bytes after the suffix.   *)
(* The values are each single bit, each byte with one bit clear, and       *)
(* patterns that tell the nibbles and the two ends of the byte apart.      *)
(***************************************************************************)
CbValues ==
    { 0, 255, 15, 240, 85, 170, 129, 126, 18, 52, 165, 90, 195, 60 }
    \cup { Pow2(k) : k \in 0 .. 7 } \cup { 255 - Pow2(k) : k \in 0 .. 7 }

\* the byte after the CB suffix: 0x12, and 0xC7 whose fields differ from
\* those of every suffix tried with it
CbThirdBytes == { 18, 199 }

CbInit ==
    /\ \E v \in CbValues, f0 \in AluFlags : reg = AluRegisters(v, f0, v)
    /\ stack = << >>
    /\ halt_mode = FALSE
    /\ stop_mode = FALSE
    /\ mem = << >>
    /\ int_flags = 0
    /\ int_enable = 0
    /\ fatal = FALSE
    /\ overflow_checks \in BOOLEAN
    /\ last = NoStep
    /\ steps = 0

\* one call of Cpu::step on 0xCB, the suffix sfx and the byte n2, with the
\* complement of the registers' value everywhere else on the bus
CbStep(sfx, n2) ==
    /\ last = NoStep
    /\ \E r \in {step(Machine([at |-> reg.pc, op |-> 203, n1 |-> sfx,
                               n2 |-> n2, d |-> 255 - reg.a]))} :
          /\ Install(r.m)
          /\ last' = r.seen
    /\ steps' = steps + 1

CbNext == \E sfx \in Byte, n2 \in CbThirdBytes : CbStep(sfx, n2)

SpecCb == CbInit /\ [][CbNext]_vars

\* the last step ran a CB-prefixed instruction whose suffix is in lo .. hi
CbRan(lo, hi) == Stepped /\ LastOpcode = 203 /\ LastOffset \in lo .. hi

\* bits 2-0 of the suffix: 0 B, 1 C, 2 D, 3 E, 4 H, 5 L, 6 (HL), 7 A
CbTarget == LastOffset % 8

\* bits 5-3 of the suffix: the operation below 0x40, the bit number above
CbField == (LastOffset \div 8) % 8

\* the byte machine M holds in the operand the suffix names
CbValue(M) ==
    CASE CbTarget = 0 -> M.reg.b
      [] CbTarget = 1 -> M.reg.c
      [] CbTarget = 2 -> M.reg.d
      [] CbTarget = 3 -> M.reg.e
      [] CbTarget = 4 -> M.reg.h
      [] CbTarget = 5 -> M.reg.l
      [] CbTarget = 6 -> BusRead(M, last.pre.reg.hl)
      [] CbTarget = 7 -> M.reg.a

\* the registers of R other than the operand the suffix names, PC and F
CbOthers(R) ==
    [a |-> IF CbTarget = 7 THEN 0 ELSE R.a,
     b |-> IF CbTarget = 0 THEN 0 ELSE R.b,
     c |-> IF CbTarget = 1 THEN 0 ELSE R.c,
     d |-> IF CbTarget = 2 THEN 0 ELSE R.d,
     e |-> IF CbTarget = 3 THEN 0 ELSE R.e,
     h |-> IF CbTarget = 4 THEN 0 ELSE R.h,
     l |-> IF CbTarget = 5 THEN 0 ELSE R.l,
     sp |-> R.sp, ime |-> R.ime]

\* C32: every step on RLC, RRC, RL or RR of a register or (HL) completes,
\* leaves PC + 2, and leaves in the operand: RLC the byte rotated left with
\* bit 0 = old bit 7 and C = old bit 7; RRC rotated right with bit 7 = old
\* bit 0 and C = old bit 0; RL shifted left with bit 0 = old C and C = old
\* bit 7; RR shifted right with bit 7 = old C and C = old bit 0; and
\* Z = (result = 0), N = 0, H = 0.
C32_CbRotates ==
    CbRan(0, 31) =>
        LET v == CbValue(last.pre)
            cin == Bit(last.pre.reg.f, 4)
            res == CASE CbField = 0 -> ((v * 2) % 256) + (v \div 128)
                     [] CbField = 1 -> (v \div 2) + ((v % 2) * 128)
                     [] CbField = 2 -> ((v * 2) % 256) + cin
                     [] CbField = 3 -> (v \div 2) + (cin * 128)
            out == IF CbField \in {0, 2} THEN v \div 128 ELSE v % 2
        IN /\ ~fatal
           /\ CbValue(last.mid) = res
           /\ reg.f = FlagByte(res = 0, 0, FALSE, out = 1)
           /\ reg.pc = Wrap16(last.pre.reg.pc + 2)

\* RL (HL) with (HL) = 0x80 and C clear: (HL) = 0x00, Z and C set
C32_Witness ==
    /\ CbRan(22, 22)
    /\ ~fatal
    /\ last.pre.reg.a = 127
    /\ last.pre.reg.f = 0
    /\ CbValue(last.pre) = 128
    /\ CbValue(last.mid) = 0
    /\ reg.f = 144
    /\ reg.pc = 258

\* C33: every step on SLA, SRA, SRL or SWAP of a register or (HL) completes
\* and leaves in the operand: SLA the byte shifted left with bit 0 = 0 and
\* C = old bit 7; SRA shifted right with bit 7 kept and C = old bit 0; SRL
\* shifted right with bit 7 = 0 and C = old bit 0; SWAP the nibbles
\* exchanged and C = 0; and Z = (result = 0), N = 0, H = 0.
C33_CbShifts ==
    CbRan(32, 63) =>
        LET v == CbValue(last.pre)
            res == CASE CbField = 4 -> (v * 2) % 256
                     [] CbField = 5 -> (v \div 2) + ((v \div 128) * 128)
                     [] CbField = 6 -> ((v % 16) * 16) + (v \div 16)
                     [] CbField = 7 -> v \div 2
            out == CASE CbField = 4 -> v \div 128
                     [] CbField = 6 -> 0
                     [] OTHER -> v % 2
        IN /\ ~fatal
           /\ CbValue(last.mid) = res
           /\ reg.f = FlagByte(res = 0, 0, FALSE, out = 1)

\* SRA D with D = 0x81 and every flag set: D = 0xC0 and only C is set
C33_Witness ==
    /\ CbRan(42, 42)
    /\ ~fatal
    /\ last.pre.reg.d = 129
    /\ last.pre.reg.f = 240
    /\ reg.d = 192
    /\ reg.de = 192 * 256 + 129
    /\ reg.f = 16

\* C34: every step on BIT b,r or BIT b,(HL) completes and leaves
\* Z = the complement of bit b of the operand, N = 0, H = 1, C as it was,
\* and every register but F and PC, and memory, as they were.
C34_BitTest ==
    CbRan(64, 127) =>
        LET v == CbValue(last.pre)
        IN /\ ~fatal
           /\ reg.f = FlagByte(Bit(v, CbField) = 0, 0, TRUE, Bit(last.pre.reg.f, 4) = 1)
           /\ reg = [last.pre.reg EXCEPT !.f = reg.f, !.pc = reg.pc]
           /\ mem = last.pre.mem
           /\ CbValue(last.mid) = v

\* BIT 7,H with H = 0x7F and C set: Z and H set, N clear, C still set
C34_Witness ==
    /\ CbRan(124, 124)
    /\ ~fatal
    /\ last.pre.reg.h = 127
    /\ last.pre.reg.f = 16
    /\ reg.f = 176
    /\ reg.h = 127
    /\ reg.hl = last.pre.reg.hl
    /\ mem = << >>

\* C35: every step on SET b,op or RES b,op completes with b = bits 5-3 and
\* op = bits 2-0 of the byte at PC + 1, whatever the byte at PC + 2: the
\* operand is left with bit b set (SET) or clear (RES) and its other bits
\* as they were, and F and the registers that are not the operand are as
\* they were.
C35_SetResFromSuffix ==
    CbRan(128, 255) =>
        LET v == CbValue(last.pre)
            had == Bit(v, CbField)
            res == IF LastOffset >= 192 THEN v + ((1 - had) * Pow2(CbField))
                   ELSE v - (had * Pow2(CbField))
        IN /\ ~fatal
           /\ CbValue(last.mid) = res
           /\ reg.f = last.pre.reg.f
           /\ CbOthers(reg) = CbOthers(last.pre.reg)
           /\ CbTarget # 6 => mem = last.pre.mem

\* SET 3,E (suffix 0xDB) followed by 0xC7, whose fields name bit 0 and A:
\* E goes from 0x10 to 0x18 and A stays 0x10
C35_Witness ==
    /\ CbRan(219, 219)
    /\ ~fatal
    /\ BusRead(last.pre, Wrap16(last.pre.reg.pc + 2)) = 199
    /\ last.pre.reg.e = 16
    /\ reg.e = 24
    /\ reg.a = 16
    /\ reg.f = last.pre.reg.f

(***************************************************************************)
(* Subtraction from memory: A and the byte at HL are chosen around the     *)
(* values of scenario S2 and at the ends of the nibble and the byte, HL    *)
(* points into work RAM or at either end of the address space, F is clear  *)
(* or full, and one SUB with (HL), a register or an immediate byte runs.   *)
(***************************************************************************)
\* 0x00 0x0F 0x10 0x3E 0x3F 0x40 0xFE 0xFF
SubValues == { 0, 15, 16, 62, 63, 64, 254, 255 }

\* 0x0000 0xC000 0xFFFF
SubAddresses == { 0, 49152, 65535 }

\* SUB B, SUB (HL), SUB A, SUB n
SubOpcodes == { 144, 150, 151, 214 }

SubInit ==
    /\ \E a0 \in SubValues, hl0 \in SubAddresses, f0 \in { 0, 240 } :
          reg = [RegistersNew EXCEPT !.a = a0, !.f = f0, !.hl = hl0,
                                     !.h = hl0 \div 256, !.l = hl0 % 256]
    /\ stack = << >>
    /\ halt_mode = FALSE
    /\ stop_mode = FALSE
    /\ mem = << >>
    /\ int_flags = 0
    /\ int_enable = 0
    /\ fatal = FALSE
    /\ overflow_checks \in BOOLEAN
    /\ last = NoStep
    /\ steps = 0

\* one call of Cpu::step on opcode op, with the byte b after it and at
\* every other address of the bus
SubStep(op, b) ==
    /\ last = NoStep
    /\ \E r \in {step(Machine([at |-> reg.pc, op |-> op, n1 |-> b,
                               n2 |-> b, d |-> b]))} :
          /\ Install(r.m)
          /\ last' = r.seen
    /\ steps' = steps + 1

SubNext == \E op \in SubOpcodes, b \in SubValues : SubStep(op, b)

SpecSub == SubInit /\ [][SubNext]_vars

\* the last step ran SUB (HL) from the state of scenario S2
ScenarioS2 ==
    /\ Stepped
    /\ LastOpcode = 150
    /\ last.pre.reg.a = 62
    /\ last.pre.reg.hl = 49152
    /\ BusRead(last.pre, 49152) = 64
    /\ last.pre.reg.f = 0

\* C36 as stated: scenario S2 leaves A = 0xFE, F = 0x70 (Z = 0, N = 1,
\* H = 1, C = 1) and PC + 1.
C36_SubBorrowAsStated ==
    ScenarioS2 =>
        /\ ~fatal
        /\ reg.a = 254
        /\ reg.f = 112
        /\ reg.pc = Wrap16(last.pre.reg.pc + 1)

\* C36: with A = 0x3E, HL = 0xC000, the byte 0x40 at 0xC000 and F = 0, a
\* step on SUB (HL) completes and leaves A = 0xFE, F = 0x50 (Z = 0, N = 1,
\* H = 0 since 0xE >= 0x0, C = 1) and PC + 1.
C36_SubBorrowScenario ==
    ScenarioS2 =>
        /\ ~fatal
        /\ reg.a = 254
        /\ reg.f = 80
        /\ reg.pc = Wrap16(last.pre.reg.pc + 1)

\* scenario S2 has run: A = 0xFE, F = 0x50, PC = 0x0101
C36_Witness ==
    /\ ScenarioS2
    /\ ~fatal
    /\ last.pre.reg.pc = 256
    /\ reg.a = 254
    /\ reg.f = 80
    /\ reg.pc = 257
    /\ reg.hl = 49152

(***************************************************************************)
(* Totality.                                                               *)
(***************************************************************************)
\* C37: every step on an opcode other than the eleven undefined ones
\* completes, with 16-bit address arithmetic wrapping modulo 2^16.
C37_DefinedOpcodesTotal ==
    (Stepped /\ LastOpcode \notin UndefinedOpcodes) => ~fatal

(***************************************************************************)
(* Flag control: from power-on with F in any setting of Z, N, H, C, any    *)
(* sequence of SCF and CCF, each step remembering the one before it.       *)
(***************************************************************************)
FlagSteps == 2

\* SCF 0x37, CCF 0x3F
FlagOpcodes == { 55, 63 }

FlagInit ==
    /\ \E fl \in 0 .. 15 : reg = [RegistersNew EXCEPT !.f = fl * 16]
    /\ stack = << >>
    /\ halt_mode = FALSE
    /\ stop_mode = FALSE
    /\ mem = << >>
    /\ int_flags = 0
    /\ int_enable = 0
    /\ fatal = FALSE
    /\ overflow_checks \in BOOLEAN
    /\ last = NoStep
    /\ steps = 0

\* one call of Cpu::step on SCF or CCF
FlagStep(op) ==
    /\ ~fatal
    /\ steps < FlagSteps
    /\ \E r \in {step(Machine([Ins(op, 0, 0) EXCEPT !.at = reg.pc]))} :
          /\ Install(r.m)
          /\ last' = r.seen @@ [prev |-> last]
    /\ steps' = steps + 1

FlagNext == \E op \in FlagOpcodes : FlagStep(op)

SpecFlag == FlagInit /\ [][FlagNext]_vars

\* the last two steps both completed on opcode op
RanTwice(op) ==
    /\ Ran(last) /\ OpcodeOf(last) = op
    /\ Ran(Back(last, 1)) /\ OpcodeOf(Back(last, 1)) = op

\* C38: every step on SCF or CCF completes and leaves Z as it was; after
\* SCF; SCF, C = 1, N = 0, H = 0 and the second SCF left F as it found it;
\* after CCF; CCF, C is what it was before the first, N = 0 and H = 0.
C38_FlagControl ==
    /\ (Stepped /\ LastOpcode \in FlagOpcodes) =>
          /\ ~fatal
          /\ Bit(reg.f, 7) = Bit(last.pre.reg.f, 7)
    /\ RanTwice(55) =>
          /\ reg.f = FlagByte(Bit(Back(last, 1).pre.reg.f, 7) = 1, 0, FALSE, TRUE)
          /\ reg.f = last.pre.reg.f
    /\ RanTwice(63) =>
          reg.f = FlagByte(Bit(Back(last, 1).pre.reg.f, 7) = 1, 0, FALSE,
                           Bit(Back(last, 1).pre.reg.f, 4) = 1)

\* CCF; CCF from F = 0xE0 (Z, N, H set, C clear): F = 0x80
C38_Witness ==
    /\ RanTwice(63)
    /\ Back(last, 1).pre.reg.f = 224
    /\ last.pre.reg.f = 144
    /\ reg.f = 128
    /\ reg.pc = 258

(***************************************************************************)
(* Interrupt handlers: the console has requested and enabled some of the   *)
(* five sources before the first step, SP is the power-on value, in work   *)
(* RAM or at the bottom of the stack, and any sequence of NOP, EI, RETI,   *)
(* PUSH BC and POP BC runs, each step remembering the steps before it.     *)
(***************************************************************************)
NestSteps == 4

NestProgram ==
    { Ins(0, 0, 0),        \* NOP
      Ins(251, 0, 0),      \* EI
      Ins(217, 0, 0),      \* RETI
      Ins(197, 0, 0),      \* PUSH BC
      Ins(193, 0, 0) }     \* POP BC

\* <<IF, IE>>: one source, two, all five, a request that is not enabled
NestPairs == { <<1, 1>>, <<5, 5>>, <<31, 31>>, <<5, 4>> }

\* 0x0001 0xC000 0xFFFE
NestSps == { 1, 49152, 65534 }

NestInit ==
    /\ \E s \in NestSps : reg = [RegistersNew EXCEPT !.sp = s]
    /\ stack = << >>
    /\ halt_mode = FALSE
    /\ stop_mode = FALSE
    /\ mem = << >>
    /\ \E p \in NestPairs : int_flags = p[1] /\ int_enable = p[2]
    /\ fatal = FALSE
    /\ overflow_checks \in BOOLEAN
    /\ last = NoStep
    /\ steps = 0

\* one call of Cpu::step
NestStep(ins) ==
    /\ ~fatal
    /\ steps < NestSteps
    /\ \E r \in {step(Machine([ins EXCEPT !.at = reg.pc]))} :
          /\ Install(r.m)
          /\ last' = r.seen @@ [prev |-> last]
    /\ steps' = steps + 1

NestNext == \E ins \in NestProgram : NestStep(ins)

SpecNest == NestInit /\ [][NestNext]_vars

\* step h entered an interrupt handler
Dispatched(h) == h.kind = "step" /\ h.int_cycles = 20

\* step h executed EI or RETI
SetsIme(h) == Ran(h) /\ OpcodeOf(h) \in {251, 217}

\* the state the step n >= 1 steps back left: the one the step after it
\* started from
LeftBy(n) == Back(last, n - 1).pre

\* C39: when the last step enters a handler and a step before it entered
\* one, EI or RETI was executed after that earlier entry, in a step up to
\* and including the last.
C39_NoNestedDispatch ==
    \A n \in 1 .. NestSteps :
        (Dispatched(last) /\ Dispatched(Back(last, n))) =>
            \E j \in 0 .. n - 1 : SetsIme(Back(last, j))

\* a handler was entered in the first step and, with sources still pending
\* and enabled, two steps on NOP ran in it with no further entry
C39_Witness ==
    /\ Completed
    /\ LastOpcode = 0
    /\ Dispatched(Back(last, 2))
    /\ OpcodeOf(Back(last, 1)) = 0
    /\ ~Dispatched(Back(last, 1))
    /\ ~Dispatched(last)
    /\ Pending(last.mid) = 30
    /\ ~reg.ime
    /\ reg.pc = 66

\* C40: when a step n steps back entered a handler after its instruction
\* left PC = P and SP = S, and the last step executes RETI from SP = S - 2
\* with the bytes at S - 1 and S - 2 of the stack as that entry left them,
\* the RETI leaves PC = P, SP = S and IME true.
C40_EntryRetiInverse ==
    \A n \in 1 .. NestSteps :
        LET h == Back(last, n)
            S == h.mid.reg.sp
            hi == Wrap16(S + W16 - 1)
            lo == Wrap16(S + W16 - 2)
        IN (/\ Dispatched(h)
            /\ Ran(last) /\ OpcodeOf(last) = 217
            /\ last.pre.reg.sp = lo
            /\ StackAt(last.pre, hi) = StackAt(LeftBy(n), hi)
            /\ StackAt(last.pre, lo) = StackAt(LeftBy(n), lo))
           => /\ last.mid.reg.pc = h.mid.reg.pc
              /\ last.mid.reg.sp = S
              /\ last.mid.reg.ime

\* NOP at 0x0100 entered the VBlank handler with 0x0101 saved; PUSH BC,
\* POP BC and RETI ran in the handler: back at 0x0101 with SP = 0xFFFE
C40_Witness ==
    /\ Completed
    /\ LastOpcode = 217
    /\ Dispatched(Back(last, 3))
    /\ Back(last, 3).mid.reg.pc = 257
    /\ Back(last, 3).mid.reg.sp = 65534
    /\ OpcodeOf(Back(last, 2)) = 197
    /\ OpcodeOf(Back(last, 1)) = 193
    /\ last.pre.reg.sp = 65532
    /\ reg.pc = 257
    /\ reg.sp = 65534
    /\ reg.ime
    /\ ~Dispatched(last)

====
